---- MODULE Spec2Model ----
(***************************************************************************)
(* Lyrics-Cloud: the text normalizer and track extraction engine           *)
(* (lib/packgen), the record validator (lib/schema), the lexical           *)
(* statistics engine (lib/stats) and the import handlers of the page.      *)
(*                                                                         *)
(* Text is a sequence of UTF-16 code units (naturals), as the source sees   *)
(* it through charCodeAt, regular expressions and String.prototype.trim.   *)
(***************************************************************************)
EXTENDS Integers, Sequences, FiniteSets, TLC

VARIABLES
  rawText,       \* normalizer: the raw text handed to normalizeText
  normalized,    \* normalizer: normalizeText(text)
  renormalized,  \* normalizer: normalizeText(normalized)
  normPc         \* normalizer: "input", "once" or "twice"

VARIABLES
  valInput,      \* validator: the untrusted value handed to normalizeLyricsPackage
  valResult,     \* validator: what that call returned or threw
  valInput2,     \* validator: the value handed to the next call
  valResult2,    \* validator: what the next call returned or threw
  valPc          \* validator: "input", "done" or "again"

VARIABLES
  statTracks,    \* statistics: the track collection handed to buildBigramStats
  statLimit,     \* statistics: the limit argument
  includeSingle, \* statistics: options.includeSingle
  segmenter,     \* statistics: whether Intl.Segmenter exists on the platform
  statResult,    \* statistics: the BigramToken[] returned
  statPc         \* statistics: "input" or "done"

VARIABLES
  parseText,     \* extraction: the text handed to parseTextToPackage
  parseArtist,   \* extraction: options.defaultArtist, if given
  parseLines,    \* extraction: the normalized, trimmed lines
  parseIdx,      \* extraction: the line the main loop reads next
  scan,          \* extraction: artist, album, year, tracks, draft, prevWasEmpty
  parseResult,   \* extraction: the PackageResult returned
  parsePc,       \* extraction: "input", "loop", "done", "filtered" or "validated"
  opened,        \* history: for each draft started, its title line, its title and the
                 \*   artist, album and year in effect when that line was read
  filtered,      \* import: parsed.tracks after the two filters of the handlers
  accepted       \* validator: what normalizeLyricsPackage returned for the package

VARIABLES
  store,         \* page: the records of db.tracks
  trackList,     \* page: the tracks state of the component
  status,        \* page: the status message, if any
  loading,       \* page: the loading flag
  lastImport,    \* history: the handler and the file of the import just made
  repeated,      \* history: that import was of the file imported just before
  importLog      \* history: the ways in which the files of that import ended

VARIABLES
  snipTracks,    \* snippets: the tracks handed to extractFocusedSnippets
  snipTerm,      \* snippets: the term argument
  snipLimit,     \* snippets: the limit argument
  snipResult,    \* snippets: the list returned
  snipPc         \* snippets: "input", "part_001" or "page.tsx" (whose function ran)

VARIABLES
  listTracks,    \* list panel: the items of the tracks array of the component
  listFilters,   \* list panel: query, albumFilter, lyricistFilter, yearFilter
  listShown      \* list panel: the items of filteredTracks

VARIABLES
  cloudWords,    \* word cloud: the word list of the words prop (0: no word left)
  cloudSize,     \* word cloud: the size state (0: not measured yet)
  lastRenderKey, \* word cloud: lastRenderKeyRef.current
  cloudRuns,     \* word cloud: the calls of run() that have not finished
  layoutWords,   \* word cloud: the layoutWords state
  renders        \* word cloud: how many times the layout effect has been run again

normVars == <<rawText, normalized, renormalized, normPc>>
valVars == <<valInput, valResult, valInput2, valResult2, valPc>>
statVars == <<statTracks, statLimit, includeSingle, segmenter, statResult, statPc>>
parseVars ==
  <<parseText, parseArtist, parseLines, parseIdx, scan, parseResult, parsePc, opened,
    filtered, accepted>>
pageVars == <<store, trackList, status, loading, lastImport, repeated, importLog>>
snipVars == <<snipTracks, snipTerm, snipLimit, snipResult, snipPc>>
listVars == <<listTracks, listFilters, listShown>>
cloudVars == <<cloudWords, cloudSize, lastRenderKey, cloudRuns, layoutWords, renders>>
vars ==
  <<normVars, valVars, statVars, parseVars,
    pageVars, snipVars, listVars, cloudVars>>

\* What the actions of one component leave alone.
notNorm ==
  <<valVars, statVars, parseVars, pageVars, snipVars, listVars, cloudVars>>
notVal ==
  <<normVars, statVars, parseVars,
    pageVars, snipVars, listVars, cloudVars>>
notStat ==
  <<normVars, valVars, parseVars, pageVars, snipVars, listVars, cloudVars>>
notParse ==
  <<normVars, valVars, statVars, pageVars, snipVars, listVars, cloudVars>>
notPage ==
  <<normVars, valVars, statVars, parseVars, snipVars, listVars, cloudVars>>
notSnip ==
  <<normVars, valVars, statVars, parseVars, pageVars, listVars, cloudVars>>
notList ==
  <<normVars, valVars, statVars, parseVars, pageVars, snipVars, cloudVars>>
notCloud ==
  <<normVars, valVars, statVars, parseVars, pageVars, snipVars, listVars>>

(***************************************************************************)
(* Code units the source names in its literals.                            *)
(***************************************************************************)
ChTab == 9          \* "\t"
ChLf == 10          \* "\n"
ChVt == 11          \* \u000b
ChFf == 12          \* \f
ChCr == 13          \* "\r"
ChSpace == 32       \* " "
ChQuot == 34        \* "\""
ChHash == 35        \* "#"
ChAmp == 38         \* "&"
ChApos == 39        \* "'"
ChComma == 44       \* ","
ChHyphen == 45      \* "-"
ChSlash == 47       \* "/"
ChColon == 58       \* ":"
ChSemi == 59        \* ";"
ChLt == 60          \* "<"
ChGt == 62          \* ">"
ChUnderscore == 95  \* "_"
ChPipe == 124       \* "|"
ChNbsp == 160       \* U+00A0
ChLs == 8232        \* U+2028
ChPs == 8233        \* U+2029
ChIdeoComma == 12289   \* U+3001
ChIdeoSpace == 12288   \* U+3000
ChLBook == 12298    \* U+300A
ChRBook == 12299    \* U+300B
ChFwComma == 65292  \* U+FF0C
ChFwColon == 65306  \* U+FF1A
ChZuo == 20316      \* U+4F5C (zuo, first unit of the credit tags)
ChCi == 35789       \* U+8BCD (ci, simplified)
ChCiTrad == 35422   \* U+8A5E (ci, traditional)
ChQu == 26354       \* U+66F2 (qu)
CjkFirst == 19968   \* U+4E00
CjkLast == 40869    \* U+9FA5

Digits == 48..57
UpperAZ == 65..90
LowerAZ == 97..122

\* ECMAScript WhiteSpace and LineTerminator code units: the class \s of a
\* regular expression and what String.prototype.trim strips.
LineTerminators == {10, 13, 8232, 8233}
WhiteSpace ==
  {9, 10, 11, 12, 13, 32, 160, 5760, 8239, 8287, 12288, 65279}
    \cup (8192..8202) \cup {8232, 8233}

IsSpace(c) == c \in WhiteSpace
IsCjk(c) == c >= CjkFirst /\ c <= CjkLast

(***************************************************************************)
(* String helpers, after the String.prototype methods the source calls.    *)
(***************************************************************************)
Max(a, b) == IF a >= b THEN a ELSE b
Min(a, b) == IF a <= b THEN a ELSE b

Slice(s, b, e) == SubSeq(s, b, e)

RECURSIVE Flatten(_)
Flatten(ss) == IF ss = <<>> THEN <<>> ELSE Head(ss) \o Flatten(Tail(ss))

RECURSIVE Join(_, _)
Join(ss, sep) ==
  IF ss = <<>> THEN <<>>
  ELSE IF Len(ss) = 1 THEN ss[1]
  ELSE ss[1] \o sep \o Join(Tail(ss), sep)

\* s.split(c) for a one-unit separator: always at least one piece.
RECURSIVE SplitOn(_, _)
SplitOn(s, c) ==
  IF \A i \in 1..Len(s) : s[i] # c THEN <<s>>
  ELSE LET k == CHOOSE i \in 1..Len(s) : s[i] = c /\ \A j \in 1..(i - 1) : s[j] # c
       IN <<SubSeq(s, 1, k - 1)>> \o SplitOn(SubSeq(s, k + 1, Len(s)), c)

TrimStart(s) ==
  IF \A i \in 1..Len(s) : IsSpace(s[i]) THEN <<>>
  ELSE LET k == CHOOSE i \in 1..Len(s) : ~IsSpace(s[i]) /\ \A j \in 1..(i - 1) : IsSpace(s[j])
       IN SubSeq(s, k, Len(s))

TrimEnd(s) ==
  IF \A i \in 1..Len(s) : IsSpace(s[i]) THEN <<>>
  ELSE LET k == CHOOSE i \in 1..Len(s) : ~IsSpace(s[i]) /\ \A j \in (i + 1)..Len(s) : IsSpace(s[j])
       IN SubSeq(s, 1, k)

Trim(s) == TrimEnd(TrimStart(s))

MapSeq(Op(_), ss) == [i \in 1..Len(ss) |-> Op(ss[i])]

RECURSIVE FilterSeq(_, _)
FilterSeq(Keep(_), ss) ==
  IF ss = <<>> THEN <<>>
  ELSE (IF Keep(Head(ss)) THEN <<Head(ss)>> ELSE <<>>) \o FilterSeq(Keep, Tail(ss))

NonEmpty(s) == s # <<>>

Includes(s, c) == \E i \in 1..Len(s) : s[i] = c

(***************************************************************************)
(* Regular expressions.  A pattern is a tree of the nodes below; ReMatch   *)
(* runs it the way ECMAScript does, by backtracking in priority order      *)
(* (greedy before lazy alternatives, left alternative first), so the       *)
(* captures are those of the first match found.  The subject is s, stk the *)
(* nodes still to match, i the position, caps the captures so far, each    *)
(* <<first, next>> with first = 0 when the group did not take part.        *)
(***************************************************************************)
Cls(S) == [t |-> "cls", set |-> S, neg |-> FALSE]
NCls(S) == [t |-> "cls", set |-> S, neg |-> TRUE]
ReSeq(items) == [t |-> "seq", items |-> items]
ReAlt(alts) == [t |-> "alt", alts |-> alts]
Rep(body, min, max, greedy) ==
  [t |-> "rep", body |-> body, min |-> min, max |-> max, greedy |-> greedy]
Grp(n, body) == [t |-> "grp", n |-> n, body |-> body]
Look(body) == [t |-> "look", body |-> body]
Eos == [t |-> "eos"]
Bos == [t |-> "bos"]

Unbounded == 0 - 1
ReDot == NCls(LineTerminators)                  \* .
ReSpace == Cls(WhiteSpace)                      \* \s
ReDigit == Cls(Digits)                          \* \d
Star(body) == Rep(body, 0, Unbounded, TRUE)     \* x*
Plus(body) == Rep(body, 1, Unbounded, TRUE)     \* x+
LazyPlus(body) == Rep(body, 1, Unbounded, FALSE) \* x+?
Opt(body) == Rep(body, 0, 1, TRUE)              \* x?
Lit(str) == ReSeq([k \in 1..Len(str) |-> Cls({str[k]})])
\* A literal under the i flag: an ASCII letter matches in either case.
FoldCase(c) ==
  IF c \in UpperAZ THEN {c, c + 32} ELSE IF c \in LowerAZ THEN {c, c - 32} ELSE {c}
LitI(str) == ReSeq([k \in 1..Len(str) |-> Cls(FoldCase(str[k]))])

NoMatch == [ok |-> FALSE, b |-> 0, e |-> 0, caps |-> <<>>]

\* The first of two attempts that matches: the order of backtracking.
OrElse(firstTry, secondTry) == IF firstTry.ok THEN firstTry ELSE secondTry

\* x{min,max} after one more x.
OneLess(n) ==
  Rep(n.body, Max(n.min - 1, 0), IF n.max = Unbounded THEN Unbounded ELSE n.max - 1, n.greedy)

RECURSIVE ReMatch(_, _, _, _)
\* The head n of the stack against s at i, then the rest of the stack.
MatchNode(s, n, rest, i, caps) ==
  CASE n.t = "cls" ->
         IF i <= Len(s) /\ ((s[i] \in n.set) # n.neg)
         THEN ReMatch(s, rest, i + 1, caps)
         ELSE NoMatch
    [] n.t = "seq" -> ReMatch(s, n.items \o rest, i, caps)
    [] n.t = "alt" ->
         IF n.alts = <<>> THEN NoMatch
         ELSE OrElse(ReMatch(s, <<Head(n.alts)>> \o rest, i, caps),
                     ReMatch(s, <<ReAlt(Tail(n.alts))>> \o rest, i, caps))
    [] n.t = "rep" ->
         IF n.min > 0 THEN ReMatch(s, <<n.body, OneLess(n)>> \o rest, i, caps)
         ELSE IF n.max = 0 THEN ReMatch(s, rest, i, caps)
         ELSE IF n.greedy
              THEN OrElse(ReMatch(s, <<n.body, OneLess(n)>> \o rest, i, caps),
                          ReMatch(s, rest, i, caps))
              ELSE OrElse(ReMatch(s, rest, i, caps),
                          ReMatch(s, <<n.body, OneLess(n)>> \o rest, i, caps))
    [] n.t = "grp" ->
         ReMatch(s, <<n.body, [t |-> "close", n |-> n.n, b |-> i]>> \o rest, i, caps)
    [] n.t = "close" ->
         ReMatch(s, rest, i, [caps EXCEPT ![n.n] = <<n.b, i>>])
    [] n.t = "look" ->
         IF ReMatch(s, <<n.body>>, i, caps).ok
         THEN ReMatch(s, rest, i, caps)
         ELSE NoMatch
    [] n.t = "bos" -> IF i = 1 THEN ReMatch(s, rest, i, caps) ELSE NoMatch
    [] n.t = "eos" -> IF i = Len(s) + 1 THEN ReMatch(s, rest, i, caps) ELSE NoMatch

\* The stack of nodes still to match against s from position i.
ReMatch(s, stk, i, caps) ==
  IF stk = <<>> THEN [ok |-> TRUE, b |-> 0, e |-> i, caps |-> caps]
  ELSE MatchNode(s, Head(stk), Tail(stk), i, caps)

NoCaps(ng) == [k \in 1..ng |-> <<0, 0>>]

StartingAt(r, i) == [r EXCEPT !.b = IF r.ok THEN i ELSE 0]

\* The match of re that starts at position i, if any.
MatchAt(re, s, i, ng) == StartingAt(ReMatch(s, <<re>>, i, NoCaps(ng)), i)

\* str.match(re) and re.exec(str) without the g flag: the leftmost match.
RECURSIVE SearchFrom(_, _, _, _)
SearchFrom(re, s, i, ng) ==
  IF i > Len(s) + 1 THEN NoMatch
  ELSE OrElse(MatchAt(re, s, i, ng), SearchFrom(re, s, i + 1, ng))

Search(re, s, ng) == SearchFrom(re, s, 1, ng)
Test(re, s) == Search(re, s, 0).ok

\* Capture n of match r as text; an absent group and an empty one are both
\* falsy in the source, and both are <<>> here.
Cap(s, r, n) ==
  IF ~r.ok \/ r.caps[n][1] = 0 THEN <<>> ELSE SubSeq(s, r.caps[n][1], r.caps[n][2] - 1)

\* str.replace(re, rep) with the g flag and a constant replacement.
RECURSIVE ReplaceAllFrom(_, _, _, _)
\* r is the match of re at i, if any.
ReplaceAt(s, re, rep, i, r) ==
  IF r.ok /\ r.e > i THEN rep \o ReplaceAllFrom(s, re, rep, r.e)
  ELSE <<s[i]>> \o ReplaceAllFrom(s, re, rep, i + 1)

ReplaceAllFrom(s, re, rep, i) ==
  IF i > Len(s) THEN <<>> ELSE ReplaceAt(s, re, rep, i, MatchAt(re, s, i, 0))

ReplaceAll(s, re, rep) == ReplaceAllFrom(s, re, rep, 1)

(***************************************************************************)
(* Text Normalizer (packgen: decodeEntities, normalizeText).               *)
(***************************************************************************)
EntNbsp == <<38, 110, 98, 115, 112, 59>>     \* "&nbsp;"
EntLt == <<38, 108, 116, 59>>                \* "&lt;"
EntGt == <<38, 103, 116, 59>>                \* "&gt;"
EntAmp == <<38, 97, 109, 112, 59>>           \* "&amp;"
EntQuot == <<38, 113, 117, 111, 116, 59>>    \* "&quot;"
EntApos == <<38, 35, 51, 57, 59>>            \* "&#39;"

HexDigits == Digits \cup (65..70) \cup (97..102)
HexVal(c) == IF c \in Digits THEN c - 48 ELSE IF c \in 65..70 THEN c - 55 ELSE c - 87

\* Number.parseInt(digits, radix) of a run of digits of that radix.
RECURSIVE ParseDigits(_, _, _)
ParseDigits(ds, radix, acc) ==
  IF ds = <<>> THEN acc ELSE ParseDigits(Tail(ds), radix, acc * radix + HexVal(Head(ds)))

\* String.fromCharCode(n): the code unit n modulo 2^16.
FromCharCode(n) == <<n % 65536>>

hexEntityRe == ReSeq(<<Lit(<<38, 35, 120>>), Grp(1, Plus(Cls(HexDigits))), Lit(<<59>>)>>)
decEntityRe == ReSeq(<<Lit(<<38, 35>>), Grp(1, Plus(ReDigit)), Lit(<<59>>)>>)

\* str.replace(re, (_, digits) => String.fromCharCode(parseInt(digits, radix)))
RECURSIVE ReplaceNumeric(_, _, _, _)
\* r is the match of re at i, if any.
ReplaceNumericAt(s, re, radix, i, r) ==
  IF r.ok
  THEN FromCharCode(ParseDigits(Cap(s, r, 1), radix, 0)) \o ReplaceNumeric(s, re, radix, r.e)
  ELSE <<s[i]>> \o ReplaceNumeric(s, re, radix, i + 1)

ReplaceNumeric(s, re, radix, i) ==
  IF i > Len(s) THEN <<>> ELSE ReplaceNumericAt(s, re, radix, i, MatchAt(re, s, i, 1))

decodeEntities(text) ==
  LET t1 == ReplaceAll(text, LitI(EntNbsp), <<ChSpace>>)
      t2 == ReplaceAll(t1, LitI(EntLt), <<ChLt>>)
      t3 == ReplaceAll(t2, LitI(EntGt), <<ChGt>>)
      t4 == ReplaceAll(t3, LitI(EntAmp), <<ChAmp>>)
      t5 == ReplaceAll(t4, LitI(EntQuot), <<ChQuot>>)
      t6 == ReplaceAll(t5, LitI(EntApos), <<ChApos>>)
      t7 == ReplaceNumeric(t6, hexEntityRe, 16, 1)
  IN ReplaceNumeric(t7, decEntityRe, 10, 1)

normalizeText(text) ==
  LET d == decodeEntities(text)
      n1 == ReplaceAll(d, Lit(<<ChCr, ChLf>>), <<ChLf>>)
      n2 == ReplaceAll(n1, Lit(<<ChCr>>), <<ChLf>>)
  IN ReplaceAll(n2, Lit(<<ChNbsp>>), <<ChSpace>>)

(***************************************************************************)
(* The normalizer applied once and then again to its own output.  Inputs   *)
(* are concatenations of at most MaxPieces pieces: entities, fragments     *)
(* that only form an entity once another entity is decoded, line endings   *)
(* and separators.                                                         *)
(***************************************************************************)
MaxPieces == 3

TextPieces ==
  { EntAmp,                 \* "&amp;"
    <<108, 116, 59>>,       \* "lt;"
    <<38, 35>>,             \* "&#"
    <<51, 56, 59>>,         \* "38;"
    <<120, 50, 54, 59>>,    \* "x26;"
    <<ChCr>>, <<ChLf>>, <<ChNbsp>>, <<ChLs>>,
    <<97>> }                \* "a"

RECURSIVE SeqsUpTo(_, _)
SeqsUpTo(S, n) ==
  IF n = 0 THEN {<<>>}
  ELSE LET shorter == SeqsUpTo(S, n - 1)
       IN shorter \cup {<<x>> \o q : x \in S, q \in {r \in shorter : Len(r) = n - 1}}

NormInit ==
  /\ rawText \in {Flatten(ps) : ps \in SeqsUpTo(TextPieces, MaxPieces)}
  /\ normalized = <<>>
  /\ renormalized = <<>>
  /\ normPc = "input"

NormIdle ==
  /\ rawText = <<>>
  /\ normalized = <<>>
  /\ renormalized = <<>>
  /\ normPc = "idle"

Normalize ==
  /\ normPc = "input"
  /\ normalized' = normalizeText(rawText)
  /\ normPc' = "once"
  /\ UNCHANGED <<rawText, renormalized, notNorm>>

NormalizeAgain ==
  /\ normPc = "once"
  /\ renormalized' = normalizeText(normalized)
  /\ normPc' = "twice"
  /\ UNCHANGED <<rawText, normalized, notNorm>>

NormNext == Normalize \/ NormalizeAgain

\* C7: normalizeText(normalizeText(x)) = normalizeText(x) for every rawText x.
C7_NormalizeIdempotent == normPc = "twice" => renormalized = normalized

\* C15: normalizeText(x) holds no carriage return, no vertical tab, form
\* feed, U+2028 or U+2029, and no U+00A0, for every rawText x.
C15_OneLineFeedConvention ==
  normPc # "input" /\ normPc # "idle" =>
    \A i \in 1..Len(normalized) :
      normalized[i] \notin {ChCr, ChVt, ChFf, ChLs, ChPs, ChNbsp}

(***************************************************************************)
(* Record Validator and Canonicalizer (lib/schema, bundled in lib/db.ts).  *)
(*                                                                         *)
(* An optional value is None or Some(v).  A value of a union type carries  *)
(* its kind in k.                                                          *)
(***************************************************************************)
None == <<>>
Some(v) == <<v>>
IsSome(o) == o # <<>>
The(o) == o[1]

Undef == [k |-> "undef", s |-> <<>>, n |-> 0, a |-> <<>>]
Str(s) == [k |-> "str", s |-> s, n |-> 0, a |-> <<>>]
Num(n) == [k |-> "num", s |-> <<>>, n |-> n, a |-> <<>>]
Arr(a) == [k |-> "arr", s |-> <<>>, n |-> 0, a |-> a]

SentinelAlbum == <<26410, 24402, 26723>>     \* U+672A U+5F52 U+6863, "unarchived"
SentinelLyricist == <<20346, 21517>>         \* U+4F5A U+540D, "anonymous"
SentinelYear == <<26410, 30693>>             \* U+672A U+77E5, "unknown"

\* z.string().min(1): present and of length at least 1.
MinOneString(o) == IsSome(o) /\ Len(The(o)) >= 1

\* The track schema without the minimum length of lyrics.
TrackInputSchemaNoLyricsMin(track) ==
  /\ MinOneString(track.title)
  /\ track.year.k \in {"undef", "str", "num"}
  /\ track.lyricists.k \in {"undef", "str", "arr"}
  /\ IsSome(track.lyrics)

TrackInputSchema(track) ==
  /\ MinOneString(track.title)
  /\ track.year.k \in {"undef", "str", "num"}
  /\ track.lyricists.k \in {"undef", "str", "arr"}
  /\ MinOneString(track.lyrics)

LyricsPackageSchema(input) ==
  /\ input.schema_version.k \in {"str", "num"}
  /\ MinOneString(input.artist)
  /\ IsSome(input.tracks)
  /\ Len(The(input.tracks)) >= 1
  /\ \A i \in 1..Len(The(input.tracks)) : TrackInputSchema(The(input.tracks)[i])

SeparatorChars == {ChIdeoComma, ChComma, ChFwComma, ChSemi, ChSlash, ChPipe}
nonWordSplit == Plus(Cls(SeparatorChars))

\* str.split(re): the pieces between the matches of re (no captures here).
RECURSIVE SplitReFrom(_, _, _, _)
SplitReFrom(s, re, i, from) ==
  IF i > Len(s) THEN <<SubSeq(s, from, Len(s))>>
  ELSE LET r == MatchAt(re, s, i, 0)
       IN IF r.ok /\ r.e > i
          THEN <<SubSeq(s, from, i - 1)>> \o SplitReFrom(s, re, r.e, r.e)
          ELSE SplitReFrom(s, re, i + 1, from)

SplitRe(s, re) == SplitReFrom(s, re, 1, 1)

\* normalizeLyricists without its .filter(Boolean).
normalizeLyricistsUnfiltered(value) ==
  IF value.k = "undef" \/ (value.k = "str" /\ value.s = <<>>) THEN <<>>
  ELSE LET source == IF value.k = "arr" THEN Join(value.a, <<ChSpace>>) ELSE value.s
       IN MapSeq(Trim, SplitRe(source, nonWordSplit))

normalizeLyricists(value) ==
  IF value.k = "undef" \/ (value.k = "str" /\ value.s = <<>>) THEN <<>>
  ELSE LET source == IF value.k = "arr" THEN Join(value.a, <<ChSpace>>) ELSE value.s
       IN FilterSeq(NonEmpty, MapSeq(Trim, SplitRe(source, nonWordSplit)))

\* String(n) of an integer.
RECURSIVE DecimalDigits(_)
DecimalDigits(n) ==
  IF n < 10 THEN <<48 + n>> ELSE DecimalDigits(n \div 10) \o <<48 + (n % 10)>>

NumberToString(n) == IF n < 0 THEN <<ChHyphen>> \o DecimalDigits(0 - n) ELSE DecimalDigits(n)

\* Number.parseInt(s, 10): leading white space, a sign, then the longest run
\* of decimal digits; NaN (ok = FALSE) when there is no digit.
LeadingDigits(s) ==
  LET stop == {i \in 1..Len(s) : s[i] \notin Digits}
      k == IF stop = {} THEN Len(s) + 1 ELSE CHOOSE i \in stop : \A j \in stop : i <= j
  IN SubSeq(s, 1, k - 1)

ParseInt10(s) ==
  LET t == TrimStart(s)
      neg == t # <<>> /\ t[1] = ChHyphen
      signed == t # <<>> /\ t[1] \in {ChHyphen, 43}
      ds == LeadingDigits(IF signed THEN Tail(t) ELSE t)
      v == ParseDigits(ds, 10, 0)
  IN [ok |-> ds # <<>>, n |-> IF neg THEN 0 - v ELSE v]

normalizeYear(value) ==
  IF value.k = "undef" \/ (value.k = "str" /\ value.s = <<>>)
  THEN [year |-> None, yearText |-> SentinelYear]
  ELSE LET parsed == IF value.k = "num" THEN [ok |-> TRUE, n |-> value.n]
                     ELSE ParseInt10(value.s)
       IN IF parsed.ok
          THEN [year |-> Some(parsed.n), yearText |-> NumberToString(parsed.n)]
          ELSE [year |-> None, yearText |-> value.s]

\* hashString keeps its 32-bit accumulator (>>> 0) as two 16-bit halves.
HashStep(h, code) ==
  LET lo == h.lo * 31 + code
  IN [hi |-> (h.hi * 31 + (lo \div 65536)) % 65536, lo |-> lo % 65536]

RECURSIVE HashFrom(_, _)
HashFrom(h, value) ==
  IF value = <<>> THEN h ELSE HashFrom(HashStep(h, Head(value)), Tail(value))

Base36Digit(d) == IF d < 10 THEN 48 + d ELSE 87 + d

\* Number.prototype.toString(36) of hi * 2^16 + lo.
RECURSIVE ToString36(_)
ToString36(h) ==
  LET qhi == h.hi \div 36
      mid == (h.hi % 36) * 65536 + h.lo
      q == [hi |-> qhi + ((mid \div 36) \div 65536), lo |-> (mid \div 36) % 65536]
      r == mid % 36
  IN IF q.hi = 0 /\ q.lo = 0 THEN <<Base36Digit(r)>>
     ELSE ToString36(q) \o <<Base36Digit(r)>>

hashString(value) == ToString36(HashFrom([hi |-> 0, lo |-> 0], value))

makeId(artist, title, album, yearText) ==
  LET joined == artist \o <<ChHyphen>> \o title \o <<ChHyphen>> \o album
                  \o <<ChHyphen>> \o yearText
      base == ReplaceAll(joined, Plus(ReSpace), <<ChHyphen>>)
  IN base \o <<ChHyphen>> \o hashString(base)

SchemaVersionText(v) == IF v.k = "num" THEN NumberToString(v.n) ELSE v.s

\* The canonical track with its id computed from the title as given.
CanonicalTrackIdOfRawTitle(artist, track) ==
  LET title == Trim(The(track.title))
      album == IF IsSome(track.album) /\ The(track.album) # <<>>
               THEN Trim(The(track.album)) ELSE SentinelAlbum
      y == normalizeYear(track.year)
      lyricists == normalizeLyricists(track.lyricists)
      lyrics == Trim(The(track.lyrics))
  IN [id |-> IF IsSome(track.id) THEN The(track.id)
             ELSE makeId(artist, The(track.title), album, y.yearText),
      title |-> title,
      album |-> album,
      year |-> y.year,
      yearText |-> y.yearText,
      lyricists |-> IF lyricists # <<>> THEN lyricists ELSE <<SentinelLyricist>>,
      lyrics |-> lyrics,
      artist |-> artist,
      sourceFile |-> None]

CanonicalTrack(artist, track) ==
  LET title == Trim(The(track.title))
      album == IF IsSome(track.album) /\ The(track.album) # <<>>
               THEN Trim(The(track.album)) ELSE SentinelAlbum
      y == normalizeYear(track.year)
      lyricists == normalizeLyricists(track.lyricists)
      lyrics == Trim(The(track.lyrics))
  IN [id |-> IF IsSome(track.id) THEN The(track.id)
             ELSE makeId(artist, title, album, y.yearText),
      title |-> title,
      album |-> album,
      year |-> y.year,
      yearText |-> y.yearText,
      lyricists |-> IF lyricists # <<>> THEN lyricists ELSE <<SentinelLyricist>>,
      lyrics |-> lyrics,
      artist |-> artist,
      sourceFile |-> None]

\* The result is the NormalizedPackage, or the ZodError that parse throws.
ZodError == [ok |-> FALSE, error |-> "ZodError", schemaVersion |-> <<>>,
             artist |-> <<>>, tracks |-> <<>>]

normalizeLyricsPackage(input) ==
  IF ~LyricsPackageSchema(input) THEN ZodError
  ELSE LET artist == Trim(The(input.artist))
       IN [ok |-> TRUE, error |-> "",
           schemaVersion |-> SchemaVersionText(input.schema_version),
           artist |-> artist,
           tracks |-> [i \in 1..Len(The(input.tracks)) |->
                         CanonicalTrack(artist, The(input.tracks)[i])]]

(***************************************************************************)
(* The validator run on an untrusted package, and run again on the same    *)
(* package resubmitted with white space around some of its fields.  A      *)
(* package holds at most MaxTracks tracks; each is the reference track or  *)
(* the reference track with one field replaced.                            *)
(***************************************************************************)
MaxTracks == 2

RefTrack ==
  [id |-> None,
   title |-> Some(<<84>>),                    \* "T"
   album |-> Some(<<66>>),                    \* "B"
   year |-> Str(<<50, 48, 50, 52>>),          \* "2024"
   lyricists |-> Arr(<< <<76>> >>),           \* ["L"]
   lyrics |-> Some(<<120>>)]                  \* "x"

TitleInputs ==
  { None, Some(<<>>), Some(<<ChSpace, 84>>),  \* absent, "", " T"
    Some(<<84, ChHyphen, 85>>),               \* "T-U"
    Some(<<84, ChSpace, 85>>),                \* "T U"
    Some(<<85>>) }                            \* "U"
AlbumInputs ==
  { None, Some(<<>>), Some(<<ChSpace>>), Some(<<66, ChSpace>>) }   \* absent, "", " ", "B "
YearInputs ==
  { Undef, Str(<<>>), Str(<<ChSpace, 50, 48, 50, 52>>),   \* absent, "", " 2024"
    Num(2024), Str(<<120>>) }                             \* 2024, "x"
LyricistInputs ==
  { Undef, Str(<<>>), Arr(<<>>),
    Arr(<< <<76>>, <<77>> >>),                \* ["L", "M"]
    Str(<<76, ChSlash, ChSpace, 77>>),        \* "L/ M"
    Arr(<< <<ChSpace>>, <<ChSlash>> >>),      \* [" ", "/"]
    Str(<<ChSpace, ChSlash, ChFwComma>>),     \* " /," with a full-width comma
    Arr(<< <<ChSpace, 76>>, <<ChSpace>> >>) } \* [" L", " "]
LyricsInputs ==
  { None, Some(<<>>), Some(<<ChSpace>>),      \* absent, "", " "
    Some(<<ChSpace, 120, ChLf>>) }            \* " x\n"
ArtistInputs == { None, Some(<<>>), Some(<<65>>) }   \* absent, "", "A"

TrackInputs ==
  {RefTrack, [RefTrack EXCEPT !.id = Some(<<107>>)]}      \* id "k"
    \cup {[RefTrack EXCEPT !.title = v] : v \in TitleInputs}
    \cup {[RefTrack EXCEPT !.album = v] : v \in AlbumInputs}
    \cup {[RefTrack EXCEPT !.year = v] : v \in YearInputs}
    \cup {[RefTrack EXCEPT !.lyricists = v] : v \in LyricistInputs}
    \cup {[RefTrack EXCEPT !.lyrics = v] : v \in LyricsInputs}

PackageInputs ==
  {[schema_version |-> Num(1), artist |-> a, tracks |-> t] :
     a \in ArtistInputs,
     t \in {None} \cup {Some(q) : q \in SeqsUpTo(TrackInputs, MaxTracks)}}

\* The same package with a space put before and after a field.
Pad(s) == <<ChSpace>> \o s \o <<ChSpace>>
PadOpt(o) == IF IsSome(o) THEN Some(Pad(The(o))) ELSE o
PadStr(v) == IF v.k = "str" THEN Str(Pad(v.s)) ELSE v
PadTracks(input, field) ==
  IF ~IsSome(input.tracks) THEN input
  ELSE [input EXCEPT !.tracks = Some([i \in 1..Len(The(input.tracks)) |->
          LET t == The(input.tracks)[i]
          IN CASE field = "title" -> [t EXCEPT !.title = PadOpt(t.title)]
               [] field = "album" -> [t EXCEPT !.album = PadOpt(t.album)]
               [] field = "year" -> [t EXCEPT !.year = PadStr(t.year)]
               [] field = "lyrics" -> [t EXCEPT !.lyrics = PadOpt(t.lyrics)]])]

Resubmissions(input) ==
  { input, [input EXCEPT !.artist = PadOpt(input.artist)],
    PadTracks(input, "title"), PadTracks(input, "album"),
    PadTracks(input, "year"), PadTracks(input, "lyrics") }

NotRun == [ok |-> FALSE, error |-> "not run", schemaVersion |-> <<>>,
           artist |-> <<>>, tracks |-> <<>>]
NoPackage == [schema_version |-> Undef, artist |-> None, tracks |-> None]

ValInit ==
  /\ valInput \in PackageInputs
  /\ valResult = NotRun
  /\ valInput2 = NoPackage
  /\ valResult2 = NotRun
  /\ valPc = "input"

ValIdle ==
  /\ valInput = NoPackage
  /\ valResult = NotRun
  /\ valInput2 = NoPackage
  /\ valResult2 = NotRun
  /\ valPc = "idle"

Validate ==
  /\ valPc = "input"
  /\ valResult' = normalizeLyricsPackage(valInput)
  /\ valPc' = "done"
  /\ UNCHANGED <<valInput, valInput2, valResult2, notVal>>

Revalidate ==
  /\ valPc = "done"
  /\ \E again \in Resubmissions(valInput) :
       /\ valInput2' = again
       /\ valResult2' = normalizeLyricsPackage(again)
  /\ valPc' = "again"
  /\ UNCHANGED <<valInput, valResult, notVal>>

ValNext == Validate \/ Revalidate


Validated == valPc \in {"done", "again"}

\* C2: every canonical track that normalizeLyricsPackage returns has a
\* non-empty lyrics field, whatever accepted input it was given.
C2_LyricsNonEmpty ==
  (Validated /\ valResult.ok) =>
    \A i \in 1..Len(valResult.tracks) : valResult.tracks[i].lyrics # <<>>

\* The inputs C3 lists: artist missing or empty, tracks missing or empty, a
\* track with an empty title or empty lyrics.
EmptyOrMissing(o) == ~IsSome(o) \/ The(o) = <<>>
C3_Rejectable(input) ==
  \/ EmptyOrMissing(input.artist)
  \/ EmptyOrMissing(input.tracks)
  \/ \E i \in 1..Len(The(input.tracks)) :
       \/ The(input.tracks)[i].title = Some(<<>>)
       \/ The(input.tracks)[i].lyrics = Some(<<>>)

\* C3: on every such input the call fails with ZodError and yields no
\* canonical record at all, also when the other tracks are valid.
C3_SchemaViolation ==
  (Validated /\ C3_Rejectable(valInput)) =>
    /\ ~valResult.ok
    /\ valResult.error = "ZodError"
    /\ valResult.tracks = <<>>

C3_Witness ==
  /\ Validated
  /\ IsSome(valInput.artist) /\ The(valInput.artist) # <<>>
  /\ IsSome(valInput.tracks) /\ Len(The(valInput.tracks)) = 2
  /\ The(valInput.tracks)[1] = RefTrack
  /\ The(valInput.tracks)[2].lyrics = Some(<<>>)
  /\ valResult = ZodError

IdFields(t) == <<t.artist, t.title, t.album, t.yearText>>

\* C4: two canonical tracks with computed ids whose (artist, title, album,
\* yearText) differ in some field have different ids.
C4_IdUnique ==
  (Validated /\ valResult.ok) =>
    \A i, j \in 1..Len(valResult.tracks) :
      (/\ ~IsSome(The(valInput.tracks)[i].id)
       /\ ~IsSome(The(valInput.tracks)[j].id)
       /\ IdFields(valResult.tracks[i]) # IdFields(valResult.tracks[j]))
        => valResult.tracks[i].id # valResult.tracks[j].id

\* C6: the computed id depends on the canonical (artist, title, album,
\* yearText) only: a second run on the same package, or on the package with
\* white space added around a field, gives each track whose four canonical
\* fields are unchanged the id it had.
C6_IdStable ==
  (valPc = "again" /\ valResult.ok /\ valResult2.ok) =>
    \A i \in 1..Len(valResult.tracks) :
      \A j \in 1..Len(valResult2.tracks) :
        (/\ ~IsSome(The(valInput.tracks)[i].id)
         /\ ~IsSome(The(valInput2.tracks)[j].id)
         /\ IdFields(valResult.tracks[i]) = IdFields(valResult2.tracks[j]))
          => valResult.tracks[i].id = valResult2.tracks[j].id

C6_Witness ==
  /\ valPc = "again" /\ valResult.ok /\ valResult2.ok
  /\ valInput2 = PadTracks(valInput, "title")
  /\ valInput2 # valInput
  /\ ~IsSome(The(valInput.tracks)[1].id)
  /\ IdFields(valResult.tracks[1]) = IdFields(valResult2.tracks[1])
  /\ valResult.tracks[1].id = valResult2.tracks[1].id

\* The raw lyricists are absent, empty, or hold separators and white space only.
C13_NoName(value) ==
  \/ value.k = "undef"
  \/ value.k = "str" /\ \A i \in 1..Len(value.s) : value.s[i] \in SeparatorChars \cup WhiteSpace
  \/ value.k = "arr" /\ \A n \in 1..Len(value.a) :
                          \A i \in 1..Len(value.a[n]) : value.a[n][i] \in SeparatorChars \cup WhiteSpace

\* C13: every canonical track has a non-empty lyricists list, and the list
\* is the one sentinel entry when the raw lyricists are absent, empty, or
\* hold only separators and white space.
C13_LyricistsNonEmpty ==
  (Validated /\ valResult.ok) =>
    \A i \in 1..Len(valResult.tracks) :
      /\ valResult.tracks[i].lyricists # <<>>
      /\ C13_NoName(The(valInput.tracks)[i].lyricists)
           => valResult.tracks[i].lyricists = <<SentinelLyricist>>

\* [" ", "/"] and " /," (full-width comma) in one package: both tracks get the sentinel.
C13_Witness ==
  /\ valPc = "done" /\ valResult.ok
  /\ Len(valResult.tracks) = 2
  /\ The(valInput.tracks)[1].lyricists = Arr(<< <<ChSpace>>, <<ChSlash>> >>)
  /\ The(valInput.tracks)[2].lyricists = Str(<<ChSpace, ChSlash, ChFwComma>>)
  /\ valResult.tracks[1].lyricists = <<SentinelLyricist>>
  /\ valResult.tracks[2].lyricists = <<SentinelLyricist>>

\* C14: a raw lyricists array of n names (n at least 1, no name blank), none
\* holding a separator character, gives the n trimmed names as the canonical
\* lyricists, one entry for each name, in the order given.
C14_NamesKept ==
  (Validated /\ valResult.ok) =>
    \A i \in 1..Len(valResult.tracks) :
      LET raw == The(valInput.tracks)[i].lyricists
      IN (/\ raw.k = "arr"
          /\ raw.a # <<>>
          /\ \A n \in 1..Len(raw.a) : Trim(raw.a[n]) # <<>>
          /\ \A n \in 1..Len(raw.a) : \A k \in 1..Len(raw.a[n]) : raw.a[n][k] \notin SeparatorChars)
           => valResult.tracks[i].lyricists = [n \in 1..Len(raw.a) |-> Trim(raw.a[n])]

(***************************************************************************)
(* Lexical Statistics Engine (lib/stats.ts).                               *)
(***************************************************************************)
stopWords ==
  { <<25105, 20204>>, <<20320, 20204>>, <<20182, 20204>>, <<22905, 20204>>,
    <<23427, 20204>>, <<33258, 24049>>, <<19968, 20010>>, <<27809, 26377>>,
    <<28982, 21518>>, <<22240, 20026>>, <<25152, 20197>>, <<20294, 26159>>,
    <<22914, 26524>>, <<21482, 26159>>, <<23601, 26159>>, <<36824, 26159>>,
    <<24050, 32463>>, <<29616, 22312>>, <<36807, 21435>>, <<26410, 26469>>,
    <<36825, 26679>>, <<37027, 26679>>, <<36825, 37324>>, <<37027, 37324>>,
    <<20160, 20040>>, <<24590, 20040>>, <<21487, 20197>>, <<19981, 20250>>,
    <<26159, 21542>>, <<21487, 33021>>, <<19981, 35201>>, <<30495, 30340>> }

stopChars ==
  { 30340, 20102, 22312, 26159, 25105, 20320, 20182, 22905, 23427, 20063,
    21644, 19982, 25110, 32780, 21834, 21734, 21527, 21602, 21543, 21568,
    36825, 37027, 23601, 37117, 34987, 35753, 20026, 26377, 26080, 19981,
    27809, 21487, 24456, 20877, 21448, 24182, 20294, 21364, 19988, 20854,
    20043, 20046, 32773, 30691, 28937, 21705, 20110, 20197, 25152, 20035,
    21017, 38750, 30342, 12289, 12290, 65292, 65281, 65311, 65307, 65306,
    8220, 8221, 12298, 12299, 65288, 65289, 12304, 12305, 8212, 45,
    95, 32, 10, 9 }

isValidChar(char) == char \notin stopChars /\ IsCjk(char)

PunctuationChars ==
  { 12290, 65292, 65281, 65311, 65307, 65306, 12289, 8220, 8221, 12298,
    12299, 12304, 12305, 65288, 65289, 8212, 8230, 45, 95 }
isPunctuation(value) == \E i \in 1..Len(value) : value[i] \in PunctuationChars
hasCjk(value) == \E i \in 1..Len(value) : IsCjk(value[i])

(***************************************************************************)
(* Intl.Segmenter("zh-Hans", {granularity: "word"}) belongs to the         *)
(* platform.  Its segments partition the text; here a run of letters or    *)
(* digits is one segment, an ideograph run is cut by longest match against *)
(* the platform dictionary (an ideograph that starts no dictionary word is *)
(* a segment by itself) and any other code unit is a segment by itself.    *)
(***************************************************************************)
SegmenterDictionary ==
  { <<33258, 24049>>,     \* U+81EA U+5DF1 (a stop word)
    <<26376, 20809>>,     \* U+6708 U+5149
    <<26143, 27827>> }    \* U+661F U+6CB3

IsAlnum(c) == c \in Digits \/ c \in UpperAZ \/ c \in LowerAZ

RunEnd(s, i) ==
  LET stop == {j \in i..Len(s) : ~IsAlnum(s[j])}
  IN IF stop = {} THEN Len(s) ELSE (CHOOSE j \in stop : \A k \in stop : j <= k) - 1

WordEnd(s, i) ==
  LET ends == {e \in i..Len(s) : SubSeq(s, i, e) \in SegmenterDictionary}
  IN IF ends = {} THEN i ELSE CHOOSE e \in ends : \A k \in ends : e >= k

RECURSIVE Segments(_, _)
Segments(s, i) ==
  IF i > Len(s) THEN <<>>
  ELSE LET e == IF IsAlnum(s[i]) THEN RunEnd(s, i)
                ELSE IF IsCjk(s[i]) THEN WordEnd(s, i)
                ELSE i
       IN <<SubSeq(s, i, e)>> \o Segments(s, e + 1)

SegmentKept(token, single) ==
  /\ token # <<>>
  /\ ~isPunctuation(token)
  /\ hasCjk(token)
  /\ (single \/ Len(token) >= 2)
  /\ token \notin stopWords
  /\ ~(Len(token) = 1 /\ token[1] \in stopChars)

\* segmentWords(text, {includeSingle}); available says whether the platform
\* has Intl.Segmenter.
segmentWords(txt, single, available) ==
  IF available
  THEN LET keep(token) == SegmentKept(token, single)
       IN FilterSeq(keep, MapSeq(Trim, Segments(txt, 1)))
  ELSE <<>>

\* Array.from(new Set(lines)): the first occurrence of each line, in order.
RECURSIVE UniqueInOrder(_, _)
UniqueInOrder(lines, seen) ==
  IF lines = <<>> THEN <<>>
  ELSE IF Head(lines) \in seen THEN UniqueInOrder(Tail(lines), seen)
  ELSE <<Head(lines)>> \o UniqueInOrder(Tail(lines), seen \cup {Head(lines)})

\* The lines of a track without the deduplication.
uniqueLinesKeepingRepeats(lyrics) ==
  FilterSeq(NonEmpty, MapSeq(Trim, SplitOn(lyrics, ChLf)))

uniqueLines(lyrics) ==
  UniqueInOrder(FilterSeq(NonEmpty, MapSeq(Trim, SplitOn(lyrics, ChLf))), {})

\* The character-bigram fallback over the text with its white space removed.
Bigrams(chars) ==
  LET pair(i) == <<chars[i], chars[i + 1]>>
      valid(i) == isValidChar(chars[i]) /\ isValidChar(chars[i + 1])
      RECURSIVE From(_)
      From(i) == IF i > Len(chars) - 1 THEN <<>>
                 ELSE (IF valid(i) THEN <<pair(i)>> ELSE <<>>) \o From(i + 1)
  IN From(1)

\* The tokens one track contributes to the count map, in counting order.
TrackTokens(track, single, available) ==
  LET uniqueText == Join(uniqueLines(track.lyrics), <<ChLf>>)
      tokens == segmentWords(uniqueText, single, available)
  IN IF tokens # <<>> THEN tokens
     ELSE Bigrams(ReplaceAll(uniqueText, Plus(ReSpace), <<>>))

\* counts.set(token, (counts.get(token) ?? 0) + 1): a Map keeps its keys in
\* the order of their first insertion.
CountToken(counts, token) ==
  IF \E i \in 1..Len(counts) : counts[i].token = token
  THEN [i \in 1..Len(counts) |->
          IF counts[i].token = token
          THEN [token |-> token, count |-> counts[i].count + 1]
          ELSE counts[i]]
  ELSE Append(counts, [token |-> token, count |-> 1])

RECURSIVE CountAll(_, _)
CountAll(counts, tokens) ==
  IF tokens = <<>> THEN counts
  ELSE CountAll(CountToken(counts, Head(tokens)), Tail(tokens))

\* Array.prototype.sort((a, b) => b.count - a.count): stable, so entries of
\* equal count keep their order.
\* An insertion that puts an entry before the entries of equal count.
RECURSIVE InsertByCountUnstable(_, _)
InsertByCountUnstable(sorted, entry) ==
  IF sorted = <<>> THEN <<entry>>
  ELSE IF Head(sorted).count > entry.count
       THEN <<Head(sorted)>> \o InsertByCountUnstable(Tail(sorted), entry)
       ELSE <<entry>> \o sorted

RECURSIVE InsertByCount(_, _)
InsertByCount(sorted, entry) ==
  IF sorted = <<>> THEN <<entry>>
  ELSE IF Head(sorted).count >= entry.count
       THEN <<Head(sorted)>> \o InsertByCount(Tail(sorted), entry)
       ELSE <<entry>> \o sorted

RECURSIVE SortByCount(_, _)
SortByCount(sorted, entries) ==
  IF entries = <<>> THEN sorted
  ELSE SortByCount(InsertByCount(sorted, Head(entries)), Tail(entries))

AllTokens(tracks, single, available) ==
  Flatten([i \in 1..Len(tracks) |-> TrackTokens(tracks[i], single, available)])

buildBigramStats(tracks, limit, single, available) ==
  LET counts == CountAll(<<>>, AllTokens(tracks, single, available))
      sorted == SortByCount(<<>>, counts)
  IN SubSeq(sorted, 1, Min(limit, Len(sorted)))

(***************************************************************************)
(* buildBigramStats applied to a track collection.  The collection holds   *)
(* at most MaxStatLines lyric lines in all, grouped into tracks in every   *)
(* way; the limit runs from 0 to MaxLimit.                                 *)
(***************************************************************************)
MaxStatLines == 3
MaxLimit == 2

StatLines ==
  { <<33258, 24049>>,                    \* U+81EA U+5DF1, a stop word
    <<26376, 20809>>,                    \* U+6708 U+5149
    <<ChSpace, 26376, 20809, ChSpace>>,  \* the same line inside spaces
    <<26143, 27827, 30340, 26376>>,      \* U+661F U+6CB3 U+7684 U+6708
    <<>> }                               \* a blank line

\* The ways to cut a sequence of lines into consecutive non-empty groups.
RECURSIVE Groupings(_)
Groupings(lines) ==
  IF lines = <<>> THEN {<<>>}
  ELSE UNION {{<<SubSeq(lines, 1, k)>> \o g : g \in Groupings(SubSeq(lines, k + 1, Len(lines)))} :
                k \in 1..Len(lines)}

TrackOfLines(lines) ==
  [title |-> <<84>>, lyrics |-> Join(lines, <<ChLf>>)]

StatTrackInputs ==
  UNION {{MapSeq(TrackOfLines, g) : g \in Groupings(ls)} :
           ls \in SeqsUpTo(StatLines, MaxStatLines)}

StatInit ==
  /\ statTracks \in StatTrackInputs
  /\ statLimit \in 0..MaxLimit
  /\ includeSingle \in BOOLEAN
  /\ segmenter \in BOOLEAN
  /\ statResult = <<>>
  /\ statPc = "input"

StatIdle ==
  /\ statTracks = <<>>
  /\ statLimit = 0
  /\ includeSingle = FALSE
  /\ segmenter = FALSE
  /\ statResult = <<>>
  /\ statPc = "idle"

BuildStats ==
  /\ statPc = "input"
  /\ statResult' = buildBigramStats(statTracks, statLimit, includeSingle, segmenter)
  /\ statPc' = "done"
  /\ UNCHANGED <<statTracks, statLimit, includeSingle, segmenter, notStat>>

StatNext == BuildStats

\* C8: every returned token passes the filters for the includeSingle
\* setting, whichever tokenization path produced it.
C8_TokensFiltered ==
  statPc = "done" =>
    \A i \in 1..Len(statResult) :
      LET token == statResult[i].token
      IN /\ token \notin stopWords
         /\ ~(Len(token) = 1 /\ token[1] \in stopChars)
         /\ \E k \in 1..Len(token) : IsCjk(token[k])
         /\ (Len(token) >= 2 \/ includeSingle)

\* The distinct trimmed non-blank lines of a lyrics text: line k is kept
\* when no earlier line has the same trimmed text.
C9_DistinctLines(lyrics) ==
  LET lines == MapSeq(Trim, SplitOn(lyrics, ChLf))
      first(k) == lines[k] # <<>> /\ \A j \in 1..(k - 1) : lines[j] # lines[k]
      RECURSIVE From(_)
      From(k) == IF k > Len(lines) THEN <<>>
                 ELSE (IF first(k) THEN <<lines[k]>> ELSE <<>>) \o From(k + 1)
  IN From(1)

C9_Deduplicated(tracks) ==
  [i \in 1..Len(tracks) |->
     [tracks[i] EXCEPT !.lyrics = Join(C9_DistinctLines(tracks[i].lyrics), <<ChLf>>)]]

\* A track with one of its lines written once more at its end.
C9_Repeated(tracks, i, k) ==
  [tracks EXCEPT ![i].lyrics =
     tracks[i].lyrics \o <<ChLf>> \o SplitOn(tracks[i].lyrics, ChLf)[k]]

\* C9: the result is the result for the tracks reduced to their distinct
\* trimmed non-blank lines, and repeating a line of a track changes nothing.
C9_OncePerUniqueLine ==
  statPc = "done" =>
    /\ statResult = buildBigramStats(C9_Deduplicated(statTracks), statLimit,
                                     includeSingle, segmenter)
    /\ \A i \in 1..Len(statTracks) :
         \A k \in 1..Len(SplitOn(statTracks[i].lyrics, ChLf)) :
           buildBigramStats(C9_Repeated(statTracks, i, k), statLimit,
                            includeSingle, segmenter) = statResult

C9_Witness ==
  /\ statPc = "done"
  /\ Len(statTracks) = 1
  /\ statTracks[1].lyrics =
       <<26376, 20809, ChLf, ChSpace, 26376, 20809, ChSpace, ChLf, 26376, 20809>>
  /\ statResult = <<[token |-> <<26376, 20809>>, count |-> 1]>>

\* The position at which a token was first counted.
C10_FirstCounted(token) ==
  LET stream == AllTokens(statTracks, includeSingle, segmenter)
  IN CHOOSE k \in 1..Len(stream) :
       stream[k] = token /\ \A j \in 1..(k - 1) : stream[j] # token

\* C10: at most statLimit tokens, counts non-increasing, and tokens of equal
\* count in the order in which they were first counted.
C10_RankedAndTruncated ==
  statPc = "done" =>
    /\ Len(statResult) <= statLimit
    /\ \A i, j \in 1..Len(statResult) :
         i < j =>
           /\ statResult[i].count >= statResult[j].count
           /\ statResult[i].count = statResult[j].count =>
                C10_FirstCounted(statResult[i].token) < C10_FirstCounted(statResult[j].token)

C10_Witness ==
  /\ statPc = "done"
  /\ Len(statResult) = 2
  /\ statLimit = 2
  /\ statResult[1].count = 2
  /\ statResult[2].count = 1
  /\ C10_FirstCounted(statResult[2].token) < C10_FirstCounted(statResult[1].token)

(***************************************************************************)
(* Track Extraction Engine (lib/packgen: parseTextToPackage).              *)
(***************************************************************************)
splitArtists(value) ==
  FilterSeq(NonEmpty, MapSeq(Trim, SplitRe(value, nonWordSplit)))

TitleOpeners == {ChLt, 65308, 12296, ChLBook, 12304, 12300}
TitleClosers == {ChGt, 65310, 12297, ChRBook, 12305, 12301}
CreditTagLyricist == ReAlt(<<Lit(<<ChZuo, ChCi>>), Lit(<<ChZuo, ChCiTrad>>)>>)
CreditTagComposer == Lit(<<ChZuo, ChQu>>)
Colons == Cls({ChColon, ChFwColon})

albumLineRe ==
  ReSeq(<<Bos, Lit(<<ChLBook>>), Star(ReSpace), Grp(1, LazyPlus(ReDot)), Star(ReSpace),
          Lit(<<ChRBook>>), Star(ReSpace), Opt(Grp(2, Rep(ReDigit, 4, 4, TRUE))),
          Star(ReSpace), Opt(Grp(3, Plus(ReDot))), Eos>>)

titleLineRe ==
  ReSeq(<<Bos, Grp(1, ReSeq(<<Cls(TitleOpeners), Star(ReSpace)>>)),
          Grp(2, LazyPlus(ReDot)),
          Grp(3, ReSeq(<<Star(ReSpace), Cls(TitleClosers)>>)),
          Grp(4, Star(ReDot)), Eos>>)

lyricistRe ==
  ReSeq(<<Grp(1, CreditTagLyricist), Colons, Star(ReSpace),
          Grp(2, LazyPlus(NCls({ChZuo, ChQu}))),
          Look(ReAlt(<<Eos,
                       ReSeq(<<Plus(ReSpace), CreditTagComposer>>),
                       Lit(<<ChIdeoSpace>>),
                       Lit(EntNbsp)>>))>>)

composerRe ==
  ReSeq(<<Grp(1, CreditTagComposer), Colons, Star(ReSpace), Grp(2, Plus(ReDot)), Eos>>)

nakedTitleRe ==
  ReSeq(<<Bos,
          Rep(Cls((CjkFirst..CjkLast) \cup UpperAZ \cup LowerAZ \cup Digits
                    \cup WhiteSpace \cup {183, 12539}), 2, 12, TRUE),
          Eos>>)

creditOnlyRe ==
  ReSeq(<<Bos, ReAlt(<<Lit(<<ChZuo, ChCi>>), Lit(<<ChZuo, ChCiTrad>>), Lit(<<ChZuo, ChQu>>)>>),
          Star(ReSpace), Colons>>)

\* line.replace(/\s+/g, " ").trim()
CollapseSpace(line) == Trim(ReplaceAll(line, Plus(ReSpace), <<ChSpace>>))

looksLikeNakedTitle(line) ==
  LET compact == ReplaceAll(line, Plus(ReSpace), <<>>)
  IN /\ ~(Len(compact) < 2 \/ Len(compact) > 12)
     /\ ~(Includes(line, ChColon) \/ Includes(line, ChFwColon))
     /\ MatchAt(nakedTitleRe, line, 1, 0).ok

\* applyCreditsFromLine: the draft with the names of the line appended, and
\* whether a tag was applied.
applyCreditsFromLine(line, draftRef) ==
  LET norm == CollapseSpace(line)
      lyricist == Search(lyricistRe, norm, 2)
      composer == Search(composerRe, norm, 2)
      withLyricist == IF lyricist.ok
                      THEN [draftRef EXCEPT !.lyricists = @ \o splitArtists(Cap(norm, lyricist, 2))]
                      ELSE draftRef
      withComposer == IF composer.ok
                      THEN [withLyricist EXCEPT !.composers = @ \o splitArtists(Cap(norm, composer, 2))]
                      ELSE withLyricist
  IN [draft |-> withComposer, applied |-> lyricist.ok \/ composer.ok]

isCreditOnlyLine(line) == MatchAt(creditOnlyRe, CollapseSpace(line), 1, 0).ok

DefaultArtist == <<26410, 30693, 33402, 20154>>   \* U+672A U+77E5 U+827A U+4EBA

\* The album, year and artist after an album-context line; m is its match.
AlbumContext(ctx, line, m) ==
  LET name == Trim(Cap(line, m, 1))
      digits == Cap(line, m, 2)
      who == Trim(Cap(line, m, 3))
  IN [ctx EXCEPT !.album = IF name # <<>> THEN name ELSE @,
                 !.year = IF digits # <<>> THEN Some(digits) ELSE @,
                 !.artist = IF who # <<>> THEN who ELSE @]

\* The locals of parseTextToPackage before its main loop: the defaults, then
\* the first non-empty line read as an album-context line if it is one.
ScanStart(lines, defaultArtist) ==
  LET given == IF IsSome(defaultArtist) THEN Trim(The(defaultArtist)) ELSE <<>>
      ctx0 == [artist |-> IF given # <<>> THEN given ELSE DefaultArtist,
               album |-> SentinelAlbum,
               year |-> None,
               tracks |-> <<>>,
               draft |-> None,
               prevWasEmpty |-> TRUE]
      content == {i \in 1..Len(lines) : Trim(lines[i]) # <<>>}
  IN IF content = {} THEN ctx0
     ELSE LET first == Trim(lines[CHOOSE i \in content : \A j \in content : i <= j])
              m == MatchAt(albumLineRe, first, 1, 3)
          IN IF m.ok THEN AlbumContext(ctx0, first, m) ELSE ctx0

\* flushDraft with the track put before the tracks emitted so far.
flushDraftFirst(ctx) ==
  IF ~IsSome(ctx.draft) THEN ctx
  ELSE LET d == The(ctx.draft)
           hasLyrics == \E i \in 1..Len(d.lines) : Trim(d.lines[i]) # <<>>
       IN IF d.title = <<>> \/ ~hasLyrics THEN [ctx EXCEPT !.draft = None]
          ELSE [ctx EXCEPT
                  !.tracks = <<[id |-> None,
                      title |-> Some(d.title),
                      album |-> Some(ctx.album),
                      year |-> IF IsSome(ctx.year) THEN Str(The(ctx.year)) ELSE Undef,
                      lyricists |-> IF d.lyricists # <<>> THEN Arr(d.lyricists) ELSE Undef,
                      lyrics |-> Some(TrimEnd(Join(d.lines, <<ChLf>>)))]>> \o @,
                  !.draft = None]

\* flushDraft without the test for a lyric line.
flushDraftAlways(ctx) ==
  IF ~IsSome(ctx.draft) THEN ctx
  ELSE LET d == The(ctx.draft)
       IN IF d.title = <<>> THEN [ctx EXCEPT !.draft = None]
          ELSE [ctx EXCEPT
                  !.tracks = Append(@,
                     [id |-> None,
                      title |-> Some(d.title),
                      album |-> Some(ctx.album),
                      year |-> IF IsSome(ctx.year) THEN Str(The(ctx.year)) ELSE Undef,
                      lyricists |-> IF d.lyricists # <<>> THEN Arr(d.lyricists) ELSE Undef,
                      lyrics |-> Some(TrimEnd(Join(d.lines, <<ChLf>>)))]),
                  !.draft = None]

\* flushDraft without the trimEnd of the joined lines.
flushDraftUntrimmed(ctx) ==
  IF ~IsSome(ctx.draft) THEN ctx
  ELSE LET d == The(ctx.draft)
           hasLyrics == \E i \in 1..Len(d.lines) : Trim(d.lines[i]) # <<>>
       IN IF d.title = <<>> \/ ~hasLyrics THEN [ctx EXCEPT !.draft = None]
          ELSE [ctx EXCEPT
                  !.tracks = Append(@,
                     [id |-> None,
                      title |-> Some(d.title),
                      album |-> Some(ctx.album),
                      year |-> IF IsSome(ctx.year) THEN Str(The(ctx.year)) ELSE Undef,
                      lyricists |-> IF d.lyricists # <<>> THEN Arr(d.lyricists) ELSE Undef,
                      lyrics |-> Some(Join(d.lines, <<ChLf>>))]),
                  !.draft = None]

flushDraft(ctx) ==
  IF ~IsSome(ctx.draft) THEN ctx
  ELSE LET d == The(ctx.draft)
           hasLyrics == \E i \in 1..Len(d.lines) : Trim(d.lines[i]) # <<>>
       IN IF d.title = <<>> \/ ~hasLyrics THEN [ctx EXCEPT !.draft = None]
          ELSE [ctx EXCEPT
                  !.tracks = Append(@,
                     [id |-> None,
                      title |-> Some(d.title),
                      album |-> Some(ctx.album),
                      year |-> IF IsSome(ctx.year) THEN Str(The(ctx.year)) ELSE Undef,
                      lyricists |-> IF d.lyricists # <<>> THEN Arr(d.lyricists) ELSE Undef,
                      lyrics |-> Some(TrimEnd(Join(d.lines, <<ChLf>>)))]),
                  !.draft = None]

startDraft(ctx, title) ==
  [ctx EXCEPT !.draft = Some([title |-> title, lyricists |-> <<>>,
                              composers |-> <<>>, lines |-> <<>>])]

\* Which branch of the main loop the trimmed line takes.
LineKind(ctx, line) ==
  IF line = <<>> THEN "blank"
  ELSE IF MatchAt(albumLineRe, line, 1, 3).ok THEN "album"
  ELSE IF MatchAt(titleLineRe, line, 1, 4).ok THEN "title"
  ELSE IF ctx.prevWasEmpty /\ looksLikeNakedTitle(line) THEN "naked"
  ELSE IF ~IsSome(ctx.draft) THEN "orphan"
  ELSE IF applyCreditsFromLine(line, The(ctx.draft)).applied /\ isCreditOnlyLine(line)
       THEN "credit"
  ELSE "lyric"

\* The title-marker branch, m being the match of titleLineRe.
TitleLine(ctx, line, m) ==
  LET rest == Trim(Cap(line, m, 4))
  IN [startDraft(flushDraft(ctx), Trim(Cap(line, m, 2))) EXCEPT
        !.draft = IF rest # <<>>
                  THEN Some(applyCreditsFromLine(rest, The(@)).draft) ELSE @,
        !.prevWasEmpty = FALSE]

\* The branches that reach applyCreditsFromLine with an open draft,
\* credited being the draft it has updated.
CreditOrLyricLine(ctx, line, kind, credited) ==
  [ctx EXCEPT !.draft = IF kind = "credit" THEN Some(credited)
                        ELSE Some([credited EXCEPT !.lines = Append(@, line)]),
              !.prevWasEmpty = FALSE]

\* One iteration of the main loop, taking the branch named by kind.
ScanBranch(ctx, line, kind) ==
  CASE kind = "blank" ->
         [ctx EXCEPT !.draft = IF IsSome(@) THEN Some([The(@) EXCEPT !.lines = Append(@, <<>>)])
                               ELSE @,
                     !.prevWasEmpty = TRUE]
    [] kind = "album" ->
         [AlbumContext(ctx, line, MatchAt(albumLineRe, line, 1, 3))
            EXCEPT !.prevWasEmpty = FALSE]
    [] kind = "title" -> TitleLine(ctx, line, MatchAt(titleLineRe, line, 1, 4))
    [] kind = "naked" ->
         [startDraft(flushDraft(ctx), Trim(line)) EXCEPT !.prevWasEmpty = FALSE]
    [] kind = "orphan" -> [ctx EXCEPT !.prevWasEmpty = FALSE]
    [] kind \in {"credit", "lyric"} ->
         CreditOrLyricLine(ctx, line, kind, applyCreditsFromLine(line, The(ctx.draft)).draft)

ScanTrimmed(ctx, line) == ScanBranch(ctx, line, LineKind(ctx, line))

ScanLine(ctx, line0) == ScanTrimmed(ctx, Trim(line0))

TextLines(txt) == MapSeq(Trim, SplitOn(normalizeText(txt), ChLf))

PackageOf(ctx) ==
  [schema_version |-> Num(1), artist |-> Some(ctx.artist), tracks |-> Some(ctx.tracks)]

\* The main loop over the first n lines; each iteration starts from the
\* values the one before has left.
RECURSIVE ScanAll(_, _, _)
ScanAll(lines, start, n) ==
  IF n = 0 THEN start
  ELSE CHOOSE next \in {ScanLine(ctx, lines[n]) : ctx \in {ScanAll(lines, start, n - 1)}} : TRUE

\* parseTextToPackage as one function, as the import handlers call it.
PackageOfLines(lines, defaultArtist) ==
  PackageOf(flushDraft(ScanAll(lines, ScanStart(lines, defaultArtist), Len(lines))))

parseTextToPackage(txt, defaultArtist) ==
  CHOOSE pkg \in {PackageOfLines(lines, defaultArtist) : lines \in {TextLines(txt)}} : TRUE

(***************************************************************************)
(* The extraction engine applied to bounded texts: up to MaxParseLines      *)
(* lines drawn from ParseLines, and the six-line fixture of the README's    *)
(* example song.                                                           *)
(***************************************************************************)
MaxParseLines == 3

\* "<<A>>2024 Z", "<<B>>", "<T>", "UV", "zuoci:L zuoqu:M", "x:y", "a", "",
\* "a b c d e f g", "a zuoci:L"
\* (book-title marks and full-width colons as in the source's patterns).
SpacedLine == <<97, ChSpace, 98, ChSpace, 99, ChSpace, 100, ChSpace, 101, ChSpace, 102, ChSpace, 103>>
EmbeddedCreditLine == <<97, ChSpace, ChZuo, ChCi, ChFwColon, 76>>

ParseLines ==
  { <<ChLBook, 65, ChRBook, 50, 48, 50, 52, ChSpace, 90>>,
    <<ChLBook, 66, ChRBook>>,
    <<ChLt, 84, ChGt>>,
    <<85, 86>>,
    <<ChZuo, ChCi, ChFwColon, 76, ChSpace, ChZuo, ChQu, ChFwColon, 77>>,
    <<120, ChColon, 121>>,
    <<97>>,
    <<>>,
    SpacedLine,
    EmbeddedCreditLine }

\* U+300A U+56DE U+58F0 U+6863 U+6848 U+300B "2024 " U+6F14 U+793A U+827A U+4EBA
FixtureAlbumLine ==
  <<ChLBook, 22238, 22768, 26723, 26696, ChRBook, 50, 48, 50, 52, ChSpace,
    28436, 31034, 33402, 20154>>
FixtureTitle == <<38654, 28783, 20043, 22806>>
FixtureLyricist == <<31034, 20363, ChCi, ChZuo, 32773>>
FixtureComposer == <<31034, 20363, ChZuo, ChQu, 32773>>
FixtureCreditLine ==
  <<ChZuo, ChCi, ChFwColon>> \o FixtureLyricist \o <<ChSpace>>
    \o <<ChZuo, ChQu, ChFwColon>> \o FixtureComposer
FixtureLine1 == <<31532, 19968, 34892, 27468, ChCi>>
FixtureLine2 == <<31532, 20108, 34892, 27468, ChCi>>
FixtureAlbum == <<22238, 22768, 26723, 26696>>
FixtureYear == <<50, 48, 50, 52>>
FixtureArtist == <<28436, 31034, 33402, 20154>>
Fixture ==
  Join(<<FixtureAlbumLine, FixtureTitle, FixtureCreditLine,
         FixtureLine1, <<>>, FixtureLine2>>, <<ChLf>>)

\* "<T>", the credit line of the fixture, "a"
CreditedText == Join(<< <<ChLt, 84, ChGt>>, FixtureCreditLine, <<97>> >>, <<ChLf>>)

\* "< >", "a": a title marker around a blank title
BlankTitleText == Join(<< <<ChLt, ChSpace, ChGt>>, <<97>> >>, <<ChLf>>)
\* "<T>", "a", "", "a", "": a stanza break and a blank last line
StanzaLines == << <<ChLt, 84, ChGt>>, <<97>>, <<>>, <<97>>, <<>> >>
StanzaText == Join(StanzaLines, <<ChLf>>)
\* "<T> zuoci:L", "zuoci:L zuoqu:M", "a": one lyricist credited twice
RepeatedCreditLines ==
  << <<ChLt, 84, ChGt, ChSpace, ChZuo, ChCi, ChFwColon, 76>>,
     <<ChZuo, ChCi, ChFwColon, 76, ChSpace, ChZuo, ChQu, ChFwColon, 77>>,
     <<97>> >>
RepeatedCreditText == Join(RepeatedCreditLines, <<ChLf>>)
\* "<T>", "a", "<T>", "b": one title twice
RepeatedTitleLines == << <<ChLt, 84, ChGt>>, <<97>>, <<ChLt, 84, ChGt>>, <<98>> >>
RepeatedTitleText == Join(RepeatedTitleLines, <<ChLf>>)

ParseTexts ==
  {Join(ls, <<ChLf>>) : ls \in SeqsUpTo(ParseLines, MaxParseLines)}
    \cup {Fixture, CreditedText, BlankTitleText, StanzaText,
          RepeatedCreditText, RepeatedTitleText}

ParseArtists == {None, Some(<<ChSpace, 90, 90>>)}

NoScan ==
  [artist |-> <<>>, album |-> <<>>, year |-> None, tracks |-> <<>>,
   draft |-> None, prevWasEmpty |-> TRUE]

ParseInit ==
  /\ parseText \in ParseTexts
  /\ parseArtist \in ParseArtists
  /\ parseLines = <<>>
  /\ parseIdx = 1
  /\ scan = NoScan
  /\ parseResult = NoPackage
  /\ parsePc = "input"
  /\ opened = <<>>
  /\ filtered = <<>>
  /\ accepted = ZodError

ParseIdle ==
  /\ parseText = <<>>
  /\ parseArtist = None
  /\ parseLines = <<>>
  /\ parseIdx = 1
  /\ scan = NoScan
  /\ parseResult = NoPackage
  /\ parsePc = "idle"
  /\ opened = <<>>
  /\ filtered = <<>>
  /\ accepted = ZodError

\* parseTextToPackage(text, { defaultArtist }) up to its main loop.
ParseStart ==
  /\ parsePc = "input"
  /\ parseLines' = TextLines(parseText)
  /\ scan' = ScanStart(parseLines', parseArtist)
  /\ parsePc' = "loop"
  /\ UNCHANGED <<parseText, parseArtist, parseIdx, parseResult, opened, filtered, accepted, notParse>>

\* One iteration of the main loop.
ParseLine ==
  /\ parsePc = "loop"
  /\ parseIdx <= Len(parseLines)
  /\ scan' = ScanLine(scan, parseLines[parseIdx])
  /\ parseIdx' = parseIdx + 1
  /\ opened' = IF LineKind(scan, Trim(parseLines[parseIdx])) \in {"title", "naked"}
                THEN Append(opened, [line |-> parseIdx, title |-> The(scan'.draft).title,
                                     artist |-> scan.artist, album |-> scan.album,
                                     year |-> scan.year])
                ELSE opened
  /\ UNCHANGED <<parseText, parseArtist, parseLines, parseResult, parsePc, filtered, accepted, notParse>>

\* After the loop: the last flush and the returned package.
ParseEnd ==
  /\ parsePc = "loop"
  /\ parseIdx > Len(parseLines)
  /\ parseResult' = PackageOf(flushDraft(scan))
  /\ parsePc' = "done"
  /\ UNCHANGED <<parseText, parseArtist, parseLines, parseIdx, scan, opened, filtered, accepted, notParse>>

Parsed == parsePc \in {"done", "filtered", "validated"}

\* C1: parseTextToPackage of the six-line fixture returns exactly one raw
\* track, titled U+96FE U+706F U+4E4B U+5916, with the single lyricist of
\* the credit line, the two lyric lines around the stanza break as lyrics,
\* the album and year of the album line, and that line's artist as the
\* package artist.
C1_FixtureExtraction ==
  (Parsed /\ parseText = Fixture) =>
    /\ parseResult.artist = Some(FixtureArtist)
    /\ Len(The(parseResult.tracks)) = 1
    /\ LET track == The(parseResult.tracks)[1]
       IN /\ track.title = Some(FixtureTitle)
          /\ track.lyricists = Arr(<<FixtureLyricist>>)
          /\ track.lyrics = Some(FixtureLine1 \o <<ChLf, ChLf>> \o FixtureLine2)
          /\ track.album = Some(FixtureAlbum)
          /\ track.year = Str(FixtureYear)

\* C19: every track returned has the album and the year that were in effect
\* when the title line of its draft was read: an album-context line read
\* while the draft is open changes neither.
C19_AlbumOfTitleLine ==
  Parsed =>
    \A i \in 1..Len(The(parseResult.tracks)) :
      \E k \in 1..Len(opened) :
        /\ The(parseResult.tracks)[i].title = Some(opened[k].title)
        /\ The(parseResult.tracks)[i].album = Some(opened[k].album)
        /\ The(parseResult.tracks)[i].year =
             (IF IsSome(opened[k].year) THEN Str(The(opened[k].year)) ELSE Undef)

\* C20: the artist returned is the artist in effect when the first draft
\* started, and the main loop changes the artist only before any draft has
\* started and only if no album-context line has set it yet.
C20_ArtistBeforeDrafts ==
  /\ []((Parsed /\ opened # <<>>) => parseResult.artist = Some(opened[1].artist))
  /\ [][(parsePc = "loop" /\ scan'.artist # scan.artist) =>
          (opened = <<>> /\ scan.artist = ScanStart(<<>>, parseArtist).artist)]_vars

\* The line about to be read, and whether a draft starts at it.
ReadingLine == parsePc = "loop" /\ parseIdx <= Len(parseLines) /\ parseIdx' = parseIdx + 1
C21_Line == parseLines[parseIdx]
C21_AfterBlank == parseIdx = 1 \/ parseLines[parseIdx - 1] = <<>>
C21_Marked ==
  MatchAt(albumLineRe, C21_Line, 1, 3).ok \/ MatchAt(titleLineRe, C21_Line, 1, 4).ok
C21_Short ==
  LET compact == SelectSeq(C21_Line, LAMBDA c : ~IsSpace(c))
  IN /\ Len(compact) >= 2 /\ Len(compact) <= 12
     /\ \A i \in 1..Len(C21_Line) :
          /\ C21_Line[i] \notin {ChColon, ChFwColon}
          /\ \/ IsCjk(C21_Line[i])
             \/ C21_Line[i] \in UpperAZ \cup LowerAZ \cup Digits \cup {ChSpace, 183, 12539}

\* C21: a line that is no album-context line and no title-marker line, read
\* after a blank line or as the first line, with 2 to 12 characters besides
\* white space, no colon, and only ideographs, letters, digits, spaces and
\* middle dots, flushes the draft and starts a draft titled with the line;
\* read after a non-blank line it starts no draft.
C21_BareTitle ==
  [][ReadingLine /\ ~C21_Marked /\ C21_Line # <<>> =>
       /\ (C21_AfterBlank /\ C21_Short) =>
            /\ scan'.draft = startDraft(scan, C21_Line).draft
            /\ scan'.tracks = flushDraft(scan).tracks
       /\ ~C21_AfterBlank =>
            /\ scan'.tracks = scan.tracks
            /\ IsSome(scan'.draft) = IsSome(scan.draft)
            /\ IsSome(scan.draft) => The(scan'.draft).title = The(scan.draft).title]_vars

\* A credit: a tag, a colon and a name without white space.
C22_Name == Plus(NCls(WhiteSpace \cup {ChColon, ChFwColon}))
C22_LyricistCredit == ReSeq(<<Grp(1, CreditTagLyricist), Colons, Star(ReSpace), Grp(2, C22_Name)>>)
C22_ComposerCredit == ReSeq(<<Grp(1, CreditTagComposer), Colons, Star(ReSpace), Grp(2, C22_Name)>>)
C22_Credit == ReAlt(<<C22_LyricistCredit, C22_ComposerCredit>>)
\* The line holds a lyricist or composer tag with its colon.
C22_Tagged(line) ==
  Search(ReSeq(<<ReAlt(<<CreditTagLyricist, CreditTagComposer>>), Colons>>), line, 0).ok
\* The line is credits and nothing else.
C22_CreditsOnly(line) ==
  MatchAt(ReSeq(<<Bos, C22_Credit, Star(ReSeq(<<Plus(ReSpace), C22_Credit>>)), Eos>>), line, 1, 2).ok
C22_Names(line, credit) ==
  LET m == Search(credit, line, 2) IN IF m.ok THEN splitArtists(Cap(line, m, 2)) ELSE <<>>

\* C22: with a draft open, a line that holds a credit tag is kept out of the
\* lyric lines exactly when it is credits and nothing else, and then its
\* names are appended to the credit lists of the draft; a line with a credit
\* inside other content is appended to the lyric lines and has its names
\* appended too.
C22_CreditLines ==
  [][(/\ ReadingLine /\ IsSome(scan.draft)
      /\ ~C21_Marked /\ C22_Tagged(C21_Line)) =>
       /\ IsSome(scan'.draft)
       /\ The(scan'.draft).lines =
            (IF C22_CreditsOnly(C21_Line) THEN The(scan.draft).lines
             ELSE Append(The(scan.draft).lines, C21_Line))
       /\ The(scan'.draft).lyricists =
            The(scan.draft).lyricists \o C22_Names(C21_Line, C22_LyricistCredit)
       /\ The(scan'.draft).composers =
            The(scan.draft).composers \o C22_Names(C21_Line, C22_ComposerCredit)]_vars

\* The steps that flush: a title line read with a draft open, and the end
\* of the loop.
Returning == parsePc = "loop" /\ parsePc' = "done"
Flushing ==
  \/ ReadingLine /\ LineKind(scan, Trim(C21_Line)) \in {"title", "naked"}
  \/ Returning
\* The raw tracks emitted so far, before and after a step.
Emitted == IF Parsed THEN The(parseResult.tracks) ELSE scan.tracks
EmittedNext == IF parsePc' = "done" THEN The(parseResult'.tracks) ELSE scan'.tracks
C23_NonBlank(line) == \E i \in 1..Len(line) : ~IsSpace(line[i])
C23_LastLine(lines) ==
  CHOOSE i \in 1..Len(lines) :
    C23_NonBlank(lines[i]) /\ \A j \in (i + 1)..Len(lines) : ~C23_NonBlank(lines[j])
\* The lines up to the last non-blank one, joined by line feeds.
C23_Body(lines) == Join(SubSeq(lines, 1, C23_LastLine(lines)), <<ChLf>>)
C23_Worth(d) == d.title # <<>> /\ \E i \in 1..Len(d.lines) : C23_NonBlank(d.lines[i])

\* C23: a flush emits the open draft as one more raw track exactly when the
\* draft has a non-empty title and a non-blank lyric line, and otherwise
\* emits nothing; the emitted track has the draft's title and, as lyrics, the
\* draft's lines up to the last non-blank one with the blank lines between
\* them kept; so every raw track has a non-empty title and a non-blank
\* lyric line.
C23_Flush ==
  /\ [](\A i \in 1..Len(Emitted) :
          /\ The(Emitted[i].title) # <<>>
          /\ C23_NonBlank(The(Emitted[i].lyrics)))
  /\ [][(Flushing /\ IsSome(scan.draft)) =>
          IF C23_Worth(The(scan.draft))
          THEN /\ Len(EmittedNext) = Len(scan.tracks) + 1
               /\ SubSeq(EmittedNext, 1, Len(scan.tracks)) = scan.tracks
               /\ EmittedNext[Len(EmittedNext)].title = Some(The(scan.draft).title)
               /\ EmittedNext[Len(EmittedNext)].lyrics = Some(C23_Body(The(scan.draft).lines))
          ELSE EmittedNext = scan.tracks]_vars

\* The stanza text is parsed: its track keeps the blank line between the two
\* lyric lines and loses the blank last line.
C23_Witness ==
  /\ Parsed /\ parseLines = StanzaLines
  /\ Len(Emitted) = 1
  /\ Emitted[1].lyrics = Some(<<97, ChLf, ChLf, 97>>)

\* The draft with the blank title is discarded at the end of the loop.
C23_WitnessDiscard ==
  /\ Parsed /\ parseText = BlankTitleText /\ Emitted = <<>>
  /\ IsSome(scan.draft) /\ The(scan.draft).title = <<>> /\ The(scan.draft).lines = << <<97>> >>

\* C24: no name occurs twice in the lyricists of a raw track.
C24_LyricistsDistinct ==
  \A i \in 1..Len(Emitted) :
    Emitted[i].lyricists.k = "arr" =>
      \A j, k \in 1..Len(Emitted[i].lyricists.a) :
        Emitted[i].lyricists.a[j] = Emitted[i].lyricists.a[k] => j = k

\* The line after which the lines of the k-th opened draft end.
C27_NextTitle(k) == IF k < Len(opened) THEN opened[k + 1].line ELSE Len(parseLines) + 1
\* Every non-blank line of the lyrics is a line of the text between the
\* k-th title line and the next one.
C27_LinesWithin(lyrics, k) ==
  LET own == SplitOn(lyrics, ChLf)
  IN \A i \in 1..Len(own) :
       own[i] # <<>> =>
         \E n \in (opened[k].line + 1)..(C27_NextTitle(k) - 1) : parseLines[n] = own[i]

\* C27: the raw tracks of the returned package can be matched, in order and
\* one to one, with title lines of the text in the order they appear: each
\* track has the title of its title line, and every non-blank line of its
\* lyrics is a line of the text after that title line and before the next.
C27_TracksFollowTitleLines ==
  Parsed =>
    LET raw == The(parseResult.tracks)
    IN \E f \in [1..Len(raw) -> 1..Len(opened)] :
         /\ \A i, j \in 1..Len(raw) : i < j => f[i] < f[j]
         /\ \A i \in 1..Len(raw) :
              /\ raw[i].title = Some(opened[f[i]].title)
              /\ C27_LinesWithin(The(raw[i].lyrics), f[i])

\* The text with two title lines is parsed into two tracks, the lyric line
\* of each after its own title line.
C27_Witness ==
  /\ parsePc = "done" /\ parseLines = RepeatedTitleLines
  /\ Len(Emitted) = 2 /\ Len(opened) = 2
  /\ Emitted[1].lyrics = Some(<<97>>) /\ Emitted[2].lyrics = Some(<<98>>)

(***************************************************************************)
(* The track store (lib/db) and the import handlers of the page.  The      *)
(* store is the set of stored records; its primary key is id.              *)
(***************************************************************************)
ChDot == 46         \* "."

\* A put that would keep the stored record beside the new one.
putKeepingStored(table, record) == table \cup {record}

\* Table.put of an object store with an inbound primary key: the record
\* takes the place of the stored record with the same id.
put(table, record) == {r \in table : r.id # record.id} \cup {record}

\* Table.bulkPut(records): one put for each record, in order.
RECURSIVE bulkPut(_, _)
bulkPut(table, records) ==
  IF records = <<>> THEN table
  ELSE bulkPut(put(table, Head(records)), Tail(records))

\* A bulkDelete that empties the table.
bulkDeleteEvery(table, keys) == {r \in table : FALSE}

\* Table.bulkDelete(keys)
bulkDelete(table, keys) == {r \in table : r.id \notin keys}

ToLowerCase(str) ==
  [k \in 1..Len(str) |-> IF str[k] \in UpperAZ THEN str[k] + 32 ELSE str[k]]

\* file.name.split(".").pop()?.toLowerCase()
Extension(name) ==
  LET parts == SplitOn(name, ChDot) IN ToLowerCase(parts[Len(parts)])

ExtJson == <<106, 115, 111, 110>>     \* "json"
ExtTxt == <<116, 120, 116>>           \* "txt"
ExtDocx == <<100, 111, 99, 120>>      \* "docx"

\* The patterns that turn mammoth's HTML into text.
WordChars == Digits \cup UpperAZ \cup LowerAZ \cup {ChUnderscore}
brTagRe ==
  ReSeq(<<Lit(<<ChLt>>), Star(ReSpace), LitI(<<98, 114>>), Star(ReSpace),
          Opt(Lit(<<ChSlash>>)), Lit(<<ChGt>>)>>)
closePSpacedRe ==
  ReSeq(<<Lit(<<ChLt, ChSlash>>), Star(ReSpace), LitI(<<112>>), Star(ReSpace),
          Lit(<<ChGt>>)>>)
closePRe == LitI(<<ChLt, ChSlash, 112, ChGt>>)
anyTagRe == ReSeq(<<Lit(<<ChLt>>), Plus(NCls({ChGt})), Lit(<<ChGt>>)>>)
\* /<\/?(p|br)\b/i: after a letter, \b holds at the end or before a non-word unit.
leftoverMarkupRe ==
  ReSeq(<<Lit(<<ChLt>>), Opt(Lit(<<ChSlash>>)),
          ReAlt(<<LitI(<<112>>), LitI(<<98, 114>>)>>),
          Look(ReAlt(<<Eos, NCls(WordChars)>>))>>)

\* handleImport: br and </p> to line feeds, other tags dropped, &nbsp; to a space.
StripMarkup(html) ==
  ReplaceAll(
    ReplaceAll(
      ReplaceAll(
        ReplaceAll(html, brTagRe, <<ChLf>>),
        closePSpacedRe, <<ChLf>>),
      anyTagRe, <<>>),
    LitI(EntNbsp), <<ChSpace>>)

StripLeftoverMarkup(docxText) ==
  IF Test(leftoverMarkupRe, docxText) THEN StripMarkup(docxText) ELSE docxText

UnifyLineBreaks(docxText) ==
  ReplaceAll(
    ReplaceAll(
      ReplaceAll(docxText, Lit(<<ChCr, ChLf>>), <<ChLf>>),
      Lit(<<ChCr>>), <<ChLf>>),
    Cls({ChVt, ChFf, ChLs, ChPs}), <<ChLf>>)

\* The docxText of handleImport: mammoth's HTML stripped, or its raw text
\* when the HTML is empty.
DocxTextOfImport(file) ==
  UnifyLineBreaks(StripLeftoverMarkup(IF file.html # <<>> THEN StripMarkup(file.html)
                                      ELSE file.rawText))

\* The docxText of handleImportFiles.
DocxTextOfImportFiles(file) ==
  IF file.html = <<>> THEN <<>>
  ELSE ReplaceAll(
         ReplaceAll(
           ReplaceAll(
             ReplaceAll(
               ReplaceAll(
                 ReplaceAll(
                   ReplaceAll(
                     ReplaceAll(file.html, brTagRe, <<ChLf>>),
                     closePRe, <<ChLf>>),
                   anyTagRe, <<>>),
                 Lit(EntLt), <<ChLt>>),
               Lit(EntGt), <<ChGt>>),
             Lit(EntAmp), <<ChAmp>>),
           Lit(EntQuot), <<ChQuot>>),
         Lit(EntApos), <<ChApos>>)

\* track.lyrics && track.lyrics.trim().length > 0
HasLyricBody(track) ==
  IsSome(track.lyrics) /\ The(track.lyrics) # <<>> /\ Len(Trim(The(track.lyrics))) > 0

\* `${parsed.artist}__${track.title}__${track.year ?? ""}`
DedupKey(artist, track) ==
  artist \o <<ChUnderscore, ChUnderscore>> \o The(track.title)
    \o <<ChUnderscore, ChUnderscore>>
    \o (CASE track.year.k = "str" -> track.year.s
          [] track.year.k = "num" -> NumberToString(track.year.n)
          [] OTHER -> <<>>)

\* The first filter without the second: every track with a lyric body.
KeepEveryKey(artist, tracks, seen) == tracks

\* The second filter of the handlers: the first track of each key.
RECURSIVE KeepFirstOfKey(_, _, _)
KeepFirstOfKey(artist, tracks, seen) ==
  IF tracks = <<>> THEN <<>>
  ELSE IF DedupKey(artist, Head(tracks)) \in seen
       THEN KeepFirstOfKey(artist, Tail(tracks), seen)
       ELSE <<Head(tracks)>>
              \o KeepFirstOfKey(artist, Tail(tracks), seen \cup {DedupKey(artist, Head(tracks))})

\* parsed.tracks after the two filters.
UsableTracks(parsed) ==
  KeepFirstOfKey(The(parsed.artist), FilterSeq(HasLyricBody, The(parsed.tracks)), {})

\* The two filters of the handlers applied to the package parseTextToPackage
\* has returned; what is left goes to normalizeLyricsPackage.
FilterParsed ==
  /\ parsePc = "done"
  /\ filtered' = UsableTracks(parseResult)
  /\ accepted' = IF filtered' = <<>> THEN accepted
                 ELSE normalizeLyricsPackage([parseResult EXCEPT !.tracks = Some(filtered')])
  /\ parsePc' = "filtered"
  /\ UNCHANGED <<parseText, parseArtist, parseLines, parseIdx, scan, parseResult, opened,
                 notParse>>

\* normalizeLyricsPackage applied to the returned package as it is.
ValidateParsed ==
  /\ parsePc = "done"
  /\ accepted' = normalizeLyricsPackage(parseResult)
  /\ parsePc' = "validated"
  /\ UNCHANGED <<parseText, parseArtist, parseLines, parseIdx, scan, parseResult, opened,
                 filtered, notParse>>

ParseNext == ParseStart \/ ParseLine \/ ParseEnd \/ FilterParsed \/ ValidateParsed

C25_Key(artist, track) == <<artist, The(track.title), track.year>>
C25_HasBody(track) ==
  IsSome(track.lyrics) /\ \E i \in 1..Len(The(track.lyrics)) : ~IsSpace(The(track.lyrics)[i])
\* The places of the raw tracks that have a lyric body and are the first
\* such track of their key.
C25_Kept(artist, raw) ==
  {i \in 1..Len(raw) :
     /\ C25_HasBody(raw[i])
     /\ \A j \in 1..(i - 1) :
          C25_HasBody(raw[j]) => C25_Key(artist, raw[j]) # C25_Key(artist, raw[i])}
C25_Nth(kept, k) == CHOOSE i \in kept : Cardinality({j \in kept : j < i}) = k - 1

\* C25: the tracks the import hands to the validator are the raw tracks that
\* have a non-blank lyric body and are the first of their (artist, title,
\* year) key, in extraction order; no two of them share a key.
C25_FilteredForValidator ==
  parsePc = "filtered" =>
    LET artist == The(parseResult.artist)
        raw == The(parseResult.tracks)
        kept == C25_Kept(artist, raw)
    IN /\ filtered = [k \in 1..Cardinality(kept) |-> raw[C25_Nth(kept, k)]]
       /\ \A i, j \in 1..Len(filtered) :
            C25_Key(artist, filtered[i]) = C25_Key(artist, filtered[j]) => i = j

\* C26: the package parseTextToPackage returns has a non-empty artist and
\* tracks with a non-empty album, and when it has a track
\* normalizeLyricsPackage accepts it and returns one canonical track for
\* each raw track.
C26_ParsedIsAccepted ==
  /\ Parsed =>
       /\ IsSome(parseResult.artist) /\ The(parseResult.artist) # <<>>
       /\ \A i \in 1..Len(The(parseResult.tracks)) :
            /\ IsSome(The(parseResult.tracks)[i].album)
            /\ The(The(parseResult.tracks)[i].album) # <<>>
  /\ (parsePc = "validated" /\ The(parseResult.tracks) # <<>>) =>
       /\ accepted.ok
       /\ Len(accepted.tracks) = Len(The(parseResult.tracks))

\* The text with one title twice is validated as it was returned.
C26_Witness ==
  /\ parsePc = "validated" /\ parseLines = RepeatedTitleLines
  /\ accepted.ok /\ Len(accepted.tracks) = 2

\* The text with one title twice is filtered: the second track is dropped.
C25_Witness ==
  /\ parsePc = "filtered" /\ parseLines = RepeatedTitleLines
  /\ Len(The(parseResult.tracks)) = 2
  /\ Len(filtered) = 1 /\ filtered[1].lyrics = Some(<<97>>)

\* normalized.tracks.map((track) => ({ ...track, sourceFile }))
WithSourceFile(tracks, name) == [i \in 1..Len(tracks) |-> [tracks[i] EXCEPT !.sourceFile = name]]

\* What a handler has in hand for one file when it reaches the store:
\* "put" with the tracks to write, or the reason why nothing is written;
\* validated tells whether normalizeLyricsPackage was called on the way.
Outcome(kind, tracks, message, validated) ==
  [kind |-> kind, tracks |-> tracks, message |-> message, validated |-> validated]

Normalized(result, sourceFile) ==
  IF result.ok THEN Outcome("put", WithSourceFile(result.tracks, sourceFile), <<>>, TRUE)
  ELSE Outcome("zod", <<>>, <<>>, TRUE)

\* The txt and docx branches after the text is in hand.
FromUsable(parsed, usable, sourceFile) ==
  IF usable = <<>> THEN Outcome("empty", <<>>, <<>>, FALSE)
  ELSE Normalized(normalizeLyricsPackage([parsed EXCEPT !.tracks = Some(usable)]), sourceFile)

FromParsed(parsed, sourceFile) == FromUsable(parsed, UsableTracks(parsed), sourceFile)

FromText(txt, sourceFile) ==
  CHOOSE outcome \in {FromParsed(parsed, sourceFile) :
                        parsed \in {parseTextToPackage(txt, None)}} : TRUE

\* JSON.parse(text), then the validator.
FromJson(json) ==
  IF ~json.ok THEN Outcome("syntax", <<>>, json.message, FALSE)
  ELSE Normalized(normalizeLyricsPackage(json.value), None)

\* The body of the try block up to the store, by extension.  docxText is
\* the handler's text of a docx file, docxSource the sourceFile it attaches.
ReadFile(file, extension, docxText, docxSource) ==
  CASE extension = ExtJson -> FromJson(file.json)
    [] extension = ExtTxt -> FromText(file.text, None)
    [] extension = ExtDocx -> FromText(docxText, docxSource)
    [] OTHER -> Outcome("unsupported", <<>>, <<>>, FALSE)

\* handleImport of app/page.tsx
ReadForImport(file) ==
  CHOOSE outcome \in {ReadFile(file, Extension(file.name), docxText, None) :
                        docxText \in {DocxTextOfImport(file)}} : TRUE

\* handleImportFiles
ReadForImportFiles(file) ==
  CHOOSE outcome \in {ReadFile(file, Extension(file.name), docxText, Some(file.name)) :
                        docxText \in {DocxTextOfImportFiles(file)}} : TRUE

\* The status messages.
StatusEmptyExtraction ==
  <<26410, 35782, 21035, 21040, 27468, 35789, 27491, 25991, 65288, 21487, 33021,
    27573, 33853, 47, 25442, 34892, 34987, 21534, 65289>>
UnsupportedMessage ==
  <<19981, 25903, 25345, 30340, 25991, 20214, 26684, 24335, 65292, 35831, 36873,
    25321, 32, 74, 83, 79, 78, 47, 84, 88, 84, 47, 68, 79, 67, 88>>
StatusZodError ==
  <<23548, 20837, 22833, 36133, 65306, 23384, 22312, 32570, 22833, 27468, 35789,
    30340, 26354, 30446, 12290, 35831, 26816, 26597, 25991, 20214, 20869, 23481,
    65288, 35814, 24773, 35265, 32, 99, 111, 110, 115, 111, 108, 101, 65289, 12290>>
StatusNothingImported == <<26410, 23548, 20837, 20219, 20309, 27468, 26354>>
StatusCleared == <<24050, 28165, 31354, 26412, 22320, 25968, 25454>>
StatusImported(count) ==
  <<35299, 26512, 24182, 23548, 20837, 32>> \o NumberToString(count)
    \o <<32, 39318, 27468, 26354>>
StatusRemoved(fileName) == <<24050, 21024, 38500, 32>> \o fileName

\* The catch block of handleImport.
StatusOfFailure(outcome) ==
  CASE outcome.kind = "zod" -> StatusZodError
    [] outcome.kind = "syntax" -> outcome.message
    [] outcome.kind = "unsupported" -> UnsupportedMessage

\* importedFiles: the names the file panel offers for removal.
importedFiles(tracks) == {The(t.sourceFile) : t \in {r \in tracks : IsSome(r.sourceFile)}}

(***************************************************************************)
(* The page with a fixed set of files to choose from: packages as JSON     *)
(* (valid with one id on two tracks, invalid, unparseable), text,          *)
(* documents and an unsupported format.  A file is                         *)
(* its name, its text, what JSON.parse makes of the text, and for a        *)
(* document what mammoth returns as HTML and as raw text.                  *)
(***************************************************************************)
MaxBatch == 2

PackageOfArtistA(tracks) ==
  [schema_version |-> Num(1), artist |-> Some(<<65>>), tracks |-> Some(tracks)]

NoJson == [ok |-> FALSE, value |-> NoPackage, message |-> <<>>]
JsonValue(value) == [ok |-> TRUE, value |-> value, message |-> <<>>]
\* "Unexpected end of JSON input"
JsonSyntaxError ==
  [ok |-> FALSE, value |-> NoPackage,
   message |-> <<85, 110, 101, 120, 112, 101, 99, 116, 101, 100, 32, 101, 110, 100, 32, 111, 102, 32, 74, 83, 79, 78, 32, 105, 110, 112, 117, 116>>]

JsonFile(name, json) == [name |-> name, text |-> <<>>, json |-> json, html |-> <<>>, rawText |-> <<>>]
TextFile(name, txt) == [name |-> name, text |-> txt, json |-> NoJson, html |-> <<>>, rawText |-> <<>>]
DocxFile(name, html, raw) ==
  [name |-> name, text |-> <<>>, json |-> NoJson, html |-> html, rawText |-> raw]

\* the reference song with the lyrics "y", and two songs with the id "k"
FileB ==
  JsonFile(<<98, 46, 74, 83, 79, 78>>,
           JsonValue(PackageOfArtistA(<<[RefTrack EXCEPT !.lyrics = Some(<<121>>)],
                                        [RefTrack EXCEPT !.id = Some(<<107>>),
                                                         !.title = Some(<<85>>)],
                                        [RefTrack EXCEPT !.id = Some(<<107>>),
                                                         !.title = Some(<<86>>)]>>)))
\* a track without lyrics
FileC == JsonFile(<<99, 46, 106, 115, 111, 110>>, JsonValue(PackageOfArtistA(<<[RefTrack EXCEPT !.lyrics = Some(<<>>)]>>)))
FileD == JsonFile(<<100, 46, 106, 115, 111, 110>>, JsonSyntaxError)
\* "<T>", "x:y", "", "UV", "a"
FileE == TextFile(<<101, 46, 116, 120, 116>>, <<60, 84, 62, 10, 120, 58, 121, 10, 10, 85, 86, 10, 97>>)
\* "<p>&lt;T&gt;</p><p>x<br/>y</p>"
FileF == DocxFile(<<102, 46, 100, 111, 99, 120>>, <<60, 112, 62, 38, 108, 116, 59, 84, 38, 103, 116, 59, 60, 47, 112, 62, 60, 112, 62, 120, 60, 98, 114, 47, 62, 121, 60, 47, 112, 62>>, <<>>)
\* "a"
FileG == TextFile(<<103, 46, 116, 120, 116>>, <<97>>)
FileH == TextFile(<<104, 46, 112, 100, 102>>, <<97>>)
\* "<p>&lt;W&gt;</p><p>z</p>"
FileK == DocxFile(<<107, 46, 68, 79, 67, 88>>, <<60, 112, 62, 38, 108, 116, 59, 87, 38, 103, 116, 59, 60, 47, 112, 62, 60, 112, 62, 122, 60, 47, 112, 62>>, <<>>)

Files == {FileB, FileC, FileD, FileE, FileF, FileG, FileH, FileK}

Batches == SeqsUpTo(Files, MaxBatch) \ {<<>>}

\* What each handler has in hand for each file.
ImportOutcomes == [file \in Files |-> ReadForImport(file)]
ImportFilesOutcomes == [file \in Files |-> ReadForImportFiles(file)]

NoImport == [by |-> "none", name |-> <<>>]

PageInit ==
  /\ store = {}
  /\ trackList = {}
  /\ status = None
  /\ loading = FALSE
  /\ lastImport = NoImport
  /\ repeated = FALSE
  /\ importLog = {}

PageIdle == PageInit

\* The history of an import by handler by: the last file it read, and
\* whether it read that file alone just after the same handler had read it.
Imported(by, files) ==
  /\ lastImport' = [by |-> by, name |-> files[Len(files)].name]
  /\ repeated' = (Len(files) = 1 /\ lastImport = [by |-> by, name |-> files[1].name])

NotAnImport ==
  /\ lastImport' = NoImport
  /\ repeated' = FALSE
  /\ importLog' = {}

\* The history of one file of an import: how the handler's reading of it
\* ended, and whether the store differs from the store it began with.
Logged(outcome, before, after) ==
  [kind |-> outcome.kind, validated |-> outcome.validated, changed |-> after # before]

\* handleImport(file) of app/page.tsx, for a chosen file.
handleImport ==
  \E file \in Files :
    \E outcome \in {ImportOutcomes[file]} :
      /\ IF outcome.kind = "put"
         THEN /\ store' = bulkPut(store, outcome.tracks)
              /\ trackList' = store'
              /\ status' = Some(StatusImported(Len(outcome.tracks)))
         ELSE /\ status' = Some(IF outcome.kind = "empty" THEN StatusEmptyExtraction
                                 ELSE StatusOfFailure(outcome))
              /\ UNCHANGED <<store, trackList>>
      /\ loading' = FALSE
      /\ Imported("handleImport", <<file>>)
      /\ importLog' = {Logged(outcome, store, store')}
      /\ UNCHANGED notPage

\* The loop of handleImportFiles over the files: the store, totalImported
\* and the history of the files read.
\* The table after a file that failed is emptied.
TableAfterLosing(table, outcome) ==
  IF outcome.kind = "put" THEN bulkPut(table, outcome.tracks) ELSE {}

\* The table after one turn of the loop: bulkPut of the tracks in hand; a
\* continue or the catch block leaves it as it is.
TableAfter(table, outcome) ==
  IF outcome.kind = "put" THEN bulkPut(table, outcome.tracks) ELSE table

\* The table, the count and the history after one turn of the loop.
ImportLogged(acc, outcome, after) ==
  [table |-> after,
   totalImported |-> IF outcome.kind = "put" THEN acc.totalImported + Len(outcome.tracks)
                     ELSE acc.totalImported,
   log |-> acc.log \cup {Logged(outcome, acc.table, after)}]

\* One turn of the loop, for what the handler has in hand for the file.
ImportOne(acc, outcome) == ImportLogged(acc, outcome, TableAfter(acc.table, outcome))

RECURSIVE ImportEach(_, _)
ImportEach(files, acc) ==
  IF files = <<>> THEN acc
  ELSE ImportEach(Tail(files), ImportOne(acc, ImportFilesOutcomes[Head(files)]))

\* handleImportFiles(files), for a non-empty FileList.
handleImportFiles ==
  \E files \in Batches :
    \E done \in {ImportEach(files, [table |-> store, totalImported |-> 0, log |-> {}])} :
      /\ store' = done.table
      /\ trackList' = store'
      /\ status' = Some(IF done.totalImported # 0 THEN StatusImported(done.totalImported)
                        ELSE StatusNothingImported)
      /\ loading' = FALSE
      /\ Imported("handleImportFiles", files)
      /\ importLog' = done.log
      /\ UNCHANGED notPage

handleClear ==
  /\ store' = {}
  /\ trackList' = {}
  /\ status' = Some(StatusCleared)
  /\ NotAnImport
  /\ UNCHANGED <<loading, notPage>>

\* handleRemoveFile(fileName), for a name of the file panel.
handleRemoveFile ==
  \E fileName \in importedFiles(trackList) :
    LET toDelete == {r.id : r \in {t \in store : t.sourceFile = Some(fileName)}}
    IN /\ store' = IF toDelete # {} THEN bulkDelete(store, toDelete) ELSE store
       /\ trackList' = store'
       /\ status' = Some(StatusRemoved(fileName))
       /\ NotAnImport
       /\ UNCHANGED <<loading, notPage>>

PageNext == handleImport \/ handleImportFiles \/ handleClear \/ handleRemoveFile

\* C5: no two stored records share an id, whatever was imported, and an
\* import of the file that the same handler has just imported leaves the
\* store as the first import left it.
C5_Upsert ==
  /\ [](\A a, b \in store : a.id = b.id => a = b)
  /\ [][repeated' => store' = store]_vars

\* FileB imported twice in succession: its three tracks are two records.
C5_Witness ==
  /\ repeated
  /\ lastImport.name = FileB.name
  /\ Cardinality(store) = 2
  /\ \E r \in store : r.id = <<107>> /\ r.title = <<86>>

AfterImport == lastImport.by # "none"

\* C16: a file whose import fails (unsupported extension, JSON syntax
\* error, schema violation, empty extraction) leaves the store as it was
\* when the reading of that file began, so what earlier files of the batch
\* wrote stays; an import in which every file fails leaves the store as it was.
C16_FailureKeepsStore ==
  /\ [](\A e \in importLog : e.kind # "put" => ~e.changed)
  /\ [][(/\ lastImport'.by # "none"
         /\ \A e \in importLog' : e.kind # "put") => store' = store]_vars

\* e.txt then c.json in one batch: the first file is written, the schema
\* violation of the second leaves its records in the store.
C16_Witness ==
  /\ lastImport = [by |-> "handleImportFiles", name |-> FileC.name]
  /\ importLog = {[kind |-> "put", validated |-> TRUE, changed |-> TRUE],
                  [kind |-> "zod", validated |-> TRUE, changed |-> FALSE]}
  /\ \A r \in store : r.artist = DefaultArtist
  /\ Cardinality(store) = 2

\* C17: after an import in which the validator rejected every file the
\* status is the missing-lyrics message, and after an import in which every
\* file failed in other ways it is a different message.
C17_ZodStatusDistinct ==
  AfterImport =>
    /\ (\A e \in importLog : e.kind = "zod") => status = Some(StatusZodError)
    /\ (\A e \in importLog : e.kind \in {"syntax", "unsupported", "empty"})
          => status # Some(StatusZodError)

\* C18: after an import in which every file was a text or document file
\* that yields no filtered track the store is as it was, the validator was not
\* called, the status is the no-lyric-body message and loading is false.
C18_EmptyExtraction ==
  (AfterImport /\ \A e \in importLog : e.kind = "empty") =>
    /\ \A e \in importLog : ~e.changed /\ ~e.validated
    /\ status = Some(StatusEmptyExtraction)
    /\ loading = FALSE

FileNames == {file.name : file \in Files}

\* C28: the step that ends with the status of handleRemoveFile(name) leaves
\* in the store exactly the records whose sourceFile is not name, each as it
\* was, and sets the track list to the store.
C28_RemoveFile ==
  [][\A name \in FileNames :
       (status' = Some(StatusRemoved(name)) /\ status # status') =>
         /\ store' = {r \in store : r.sourceFile # Some(name)}
         /\ \E r \in store : r.sourceFile = Some(name)
         /\ trackList' = store']_vars

\* f.docx has been removed from a store that keeps the record of k.DOCX and
\* a record without sourceFile.
C28_Witness ==
  /\ status = Some(StatusRemoved(FileF.name))
  /\ trackList = store
  /\ \E r \in store : r.sourceFile = Some(FileK.name)
  /\ \E r \in store : r.sourceFile = None
  /\ \A r \in store : r.sourceFile # Some(FileF.name)

(***************************************************************************)
(* Focused snippets of the page (extractFocusedSnippets).  The function of *)
(* src/unnamed/part_001 counts the lines it takes from each track id and   *)
(* skips a track that has given two; the function of src/app/page.tsx has  *)
(* no such count and is otherwise the same.                                *)
(*                                                                         *)
(* An entry of the result is {line, title}; from is a history field, the   *)
(* position in tracks of the track the line was read from.                 *)
(***************************************************************************)
PerTrackCap == 2

\* String.prototype.includes with a string argument.
IncludesText(s, sub) ==
  \E i \in 0..(Len(s) - Len(sub)) : SubSeq(s, i + 1, i + Len(sub)) = sub

\* perTrackCount.get(track.id) ?? 0
CountOf(perTrackCount, id) ==
  IF id \in DOMAIN perTrackCount THEN perTrackCount[id] ELSE 0

\* perTrackCount.set(track.id, used + 1)
CountOneMore(perTrackCount, id) ==
  [k \in DOMAIN perTrackCount \cup {id} |->
     IF k = id THEN CountOf(perTrackCount, id) + 1 ELSE perTrackCount[k]]

FullNever(results, limit) == FALSE

\* if (results.length >= limit) return results;
Full(results, limit) == Len(results) >= limit

NoSnippets == [results |-> <<>>, seen |-> {}, perTrackCount |-> <<>>]

\* The body of the inner loop after the limit test, for the trimmed line.
FocusTrimmed(acc, track, from, normalizedLine, trimmedTerm, capped) ==
  IF normalizedLine = <<>> THEN acc
  ELSE IF ~IncludesText(ToLowerCase(normalizedLine), trimmedTerm) THEN acc
  ELSE IF normalizedLine \in acc.seen THEN acc
  ELSE IF capped /\ CountOf(acc.perTrackCount, track.id) >= PerTrackCap THEN acc
  ELSE [results |-> Append(acc.results,
                      [line |-> normalizedLine, title |-> track.title, from |-> from]),
        seen |-> acc.seen \cup {normalizedLine},
        perTrackCount |-> IF capped THEN CountOneMore(acc.perTrackCount, track.id)
                          ELSE acc.perTrackCount]

\* for (const line of lines): the return inside it ends both loops, as does
\* Full on every later line.
RECURSIVE FocusLines(_, _, _, _, _, _, _)
FocusLines(acc, track, from, lines, trimmedTerm, limit, capped) ==
  IF lines = <<>> \/ Full(acc.results, limit) THEN acc
  ELSE FocusLines(FocusTrimmed(acc, track, from, Trim(Head(lines)), trimmedTerm, capped),
                  track, from, Tail(lines), trimmedTerm, limit, capped)

\* for (const track of tracks), from the track at position from on.
RECURSIVE FocusTracks(_, _, _, _, _, _)
FocusTracks(acc, tracks, from, trimmedTerm, limit, capped) ==
  IF from > Len(tracks) THEN acc
  ELSE FocusTracks(FocusLines(acc, tracks[from], from, SplitOn(tracks[from].lyrics, ChLf),
                              trimmedTerm, limit, capped),
                   tracks, from + 1, trimmedTerm, limit, capped)

FocusedSnippets(tracks, trimmedTerm, limit, capped) ==
  IF trimmedTerm = <<>> THEN <<>>
  ELSE FocusTracks(NoSnippets, tracks, 1, trimmedTerm, limit, capped).results

\* src/unnamed/part_001
extractFocusedSnippets(tracks, term, limit) ==
  FocusedSnippets(tracks, ToLowerCase(Trim(term)), limit, TRUE)

\* src/app/page.tsx
extractFocusedSnippetsUncapped(tracks, term, limit) ==
  FocusedSnippets(tracks, ToLowerCase(Trim(term)), limit, FALSE)

(***************************************************************************)
(* extractFocusedSnippets applied to a track list.  The list holds at most *)
(* MaxSnipTracks tracks, each with one of the lyric texts below (lines that *)
(* differ in case and padding, a repeated line, a blank line, no line) and *)
(* an id of its own; the limit runs from 0 to MaxSnipLimit.                *)
(***************************************************************************)
MaxSnipTracks == 2
MaxSnipLimit == 3

SnipLyrics ==
  { <<97, 98, ChLf, ChSpace, 65, 98, ChSpace, ChLf, 98>>,    \* "ab\n Ab \nb"
    <<97, 98, ChLf, 97, 98, ChLf, ChLf, 120, 98>>,           \* "ab\nab\n\nxb"
    <<66, ChLf, 97, 98>>,                                   \* "B\nab"
    <<120>>,                                                \* "x"
    <<97, 66, ChLf, 98, ChLf, 97, 98, ChLf, 98, 98>>,        \* "aB\nb\nab\nbb"
    <<>> }

SnipTerms ==
  { <<>>, <<ChSpace, ChSpace>>,
    <<ChSpace, 66, ChSpace>>,     \* " B "
    <<97, 98>>,                   \* "ab"
    <<98>> }                      \* "b"

\* The track at position k of a list: ids are distinct, as in db.tracks.
SnipTrack(k, lyrics) == [id |-> <<48 + k>>, title |-> <<84, 48 + k>>, lyrics |-> lyrics]

SnipTrackLists ==
  {[k \in 1..Len(ls) |-> SnipTrack(k, ls[k])] : ls \in SeqsUpTo(SnipLyrics, MaxSnipTracks)}

SnipInit ==
  /\ snipTracks \in SnipTrackLists
  /\ snipTerm \in SnipTerms
  /\ snipLimit \in 0..MaxSnipLimit
  /\ snipResult = <<>>
  /\ snipPc = "input"

SnipIdle ==
  /\ snipTracks = <<>>
  /\ snipTerm = <<>>
  /\ snipLimit = 0
  /\ snipResult = <<>>
  /\ snipPc = "input"

\* The snippet panel of src/unnamed/part_001.
FocusSnippets ==
  /\ snipPc = "input"
  /\ snipResult' = extractFocusedSnippets(snipTracks, snipTerm, snipLimit)
  /\ snipPc' = "part_001"
  /\ UNCHANGED <<snipTracks, snipTerm, snipLimit, notSnip>>

\* The snippet panel of src/app/page.tsx.
FocusSnippetsUncapped ==
  /\ snipPc = "input"
  /\ snipResult' = extractFocusedSnippetsUncapped(snipTracks, snipTerm, snipLimit)
  /\ snipPc' = "page.tsx"
  /\ UNCHANGED <<snipTracks, snipTerm, snipLimit, notSnip>>

SnipNext == FocusSnippets \/ FocusSnippetsUncapped

Focused == snipPc # "input"

\* The trimmed lines of the track at position k.
TrimmedLinesOf(k) ==
  LET lines == SplitOn(snipTracks[k].lyrics, ChLf) IN {Trim(lines[i]) : i \in 1..Len(lines)}

\* C11: extractFocusedSnippets returns at most limit results; each is a
\* trimmed, non-blank line of the track it is attributed to and contains the
\* trimmed term when case is ignored; no line is returned twice; a blank
\* term gives no result.
C11_SnippetsBounded ==
  Focused =>
    /\ Len(snipResult) <= snipLimit
    /\ \A i \in 1..Len(snipResult) :
         /\ snipResult[i].line # <<>>
         /\ snipResult[i].line = Trim(snipResult[i].line)
         /\ snipResult[i].from \in 1..Len(snipTracks)
         /\ snipResult[i].line \in TrimmedLinesOf(snipResult[i].from)
         /\ snipResult[i].title = snipTracks[snipResult[i].from].title
         /\ IncludesText(ToLowerCase(snipResult[i].line), ToLowerCase(Trim(snipTerm)))
    /\ \A i, j \in 1..Len(snipResult) : snipResult[i].line = snipResult[j].line => i = j
    /\ Trim(snipTerm) = <<>> => snipResult = <<>>

\* Term " B " on "ab\nab\n\nxb" then "aB\nb\nab\nbb" with limit 3: the
\* repeated "ab" is taken once, the limit cuts the second track short.
C11_Witness ==
  /\ Focused
  /\ snipTerm = <<ChSpace, 66, ChSpace>>
  /\ snipLimit = 3
  /\ Len(snipTracks) = 2
  /\ snipTracks[1].lyrics = <<97, 98, ChLf, 97, 98, ChLf, ChLf, 120, 98>>
  /\ snipTracks[2].lyrics = <<97, 66, ChLf, 98, ChLf, 97, 98, ChLf, 98, 98>>
  /\ [i \in 1..Len(snipResult) |-> snipResult[i].line] = << <<97, 98>>, <<120, 98>>, <<97, 66>> >>

\* C12: no more than 2 of the returned lines were read from the same track.
C12_TwoPerTrack ==
  Focused =>
    \A k \in 1..Len(snipTracks) :
      Cardinality({i \in 1..Len(snipResult) : snipResult[i].from = k}) <= 2

(***************************************************************************)
(* The list panel of the page: filteredTracks, computed from the search    *)
(* index of lib/search and the three filters.  An array is its items and   *)
(* whether it is the tracks array of the component itself (isTracks): the  *)
(* search returns that array for a blank query, Array.filter returns a new *)
(* one, and Array.sort sorts the array it is called on.                    *)
(***************************************************************************)
AllAlbums == <<20840, 37096, 19987, 36753>>
AllLyricists == <<20840, 37096, 35789, 20316, 32773>>
AllYears == <<20840, 37096, 24180, 20221>>

TracksArray(tracks) == [items |-> tracks, isTracks |-> TRUE]
NewArray(items) == [items |-> items, isTracks |-> FALSE]

\* [title, album, yearText, lyricists.join(" "), lyrics].join(" ").toLowerCase()
Haystack(track) ==
  ToLowerCase(Join(<<track.title, track.album, track.yearText,
                     Join(track.lyricists, <<ChSpace>>), track.lyrics>>, <<ChSpace>>))

fallbackSearch(tracks, query) ==
  LET trimmed == ToLowerCase(Trim(query))
  IN IF trimmed = <<>> THEN TracksArray(tracks)
     ELSE NewArray(FilterSeq(LAMBDA track : IncludesText(Haystack(track), trimmed), tracks))

\* The search of the flexsearch index once it is loaded; hits is what the
\* library finds for the trimmed query, mapped back to tracks by id.
fastSearch(tracks, query, hits) ==
  IF Trim(query) = <<>> THEN TracksArray(tracks) ELSE NewArray(hits)

\* The tracks of a list in any number and order, each once.
Arrangements(tracks) ==
  {hits \in SeqsUpTo({tracks[i] : i \in 1..Len(tracks)}, Len(tracks)) :
     \A i, j \in 1..Len(hits) : hits[i] = hits[j] => i = j}

\* searchIndex.search(query): the index if it is loaded, the fallback if not.
Searches(tracks, query) ==
  {fallbackSearch(tracks, query)} \cup {fastSearch(tracks, query, hits) : hits \in Arrangements(tracks)}

\* String.prototype.localeCompare under "zh-Hans-CN", for texts of upper
\* case Latin letters: the order of the alphabet, a prefix first.
RECURSIVE localeCompare(_, _)
localeCompare(a, b) ==
  IF a = <<>> THEN (IF b = <<>> THEN 0 ELSE -1)
  ELSE IF b = <<>> THEN 1
  ELSE IF Head(a) < Head(b) THEN -1
  ELSE IF Head(a) > Head(b) THEN 1
  ELSE localeCompare(Tail(a), Tail(b))

\* Array.prototype.sort by title; the sort is stable.
RECURSIVE InsertByTitle(_, _)
InsertByTitle(sorted, track) ==
  IF sorted = <<>> THEN <<track>>
  ELSE IF localeCompare(Head(sorted).title, track.title) <= 0
       THEN <<Head(sorted)>> \o InsertByTitle(Tail(sorted), track)
       ELSE <<track>> \o sorted

RECURSIVE SortByTitle(_)
SortByTitle(items) ==
  IF items = <<>> THEN <<>>
  ELSE InsertByTitle(SortByTitle(SubSeq(items, 1, Len(items) - 1)), items[Len(items)])

ByAlbum(result, albumFilter) ==
  IF albumFilter # AllAlbums
  THEN NewArray(FilterSeq(LAMBDA track : track.album = albumFilter, result.items))
  ELSE result

ByLyricist(result, lyricistFilter) ==
  IF lyricistFilter # AllLyricists
  THEN NewArray(FilterSeq(LAMBDA track : Includes(track.lyricists, lyricistFilter), result.items))
  ELSE result

\* part_001: yearFilter !== "..." and track.yearText === yearFilter
ByYear(result, yearFilter) ==
  IF yearFilter # AllYears
  THEN NewArray(FilterSeq(LAMBDA track : track.yearText = yearFilter, result.items))
  ELSE result

\* page.tsx: yearFilter.trim() and track.yearText.includes(yearFilter.trim())
ByYearPart(result, yearFilter) ==
  IF Trim(yearFilter) # <<>>
  THEN NewArray(FilterSeq(LAMBDA track : IncludesText(track.yearText, Trim(yearFilter)),
                          result.items))
  ELSE result

(***************************************************************************)
(* The list panel over a track list of at most MaxListTracks of the three  *)
(* tracks below, in any order; each step is one computation of             *)
(* filteredTracks for some query and filter setting.                       *)
(***************************************************************************)
MaxListTracks == 3

ListTrack(id, title, album, yearText, lyricist, lyrics) ==
  [id |-> id, title |-> title, album |-> album, yearText |-> yearText,
   lyricists |-> <<lyricist>>, lyrics |-> lyrics]

\* titles "B", "A", "A"; albums "X", "X", "Y"
ListTrackPool ==
  { ListTrack(<<49>>, <<66>>, <<88>>, <<50, 48, 50, 52>>, <<76>>, <<97>>),
    ListTrack(<<50>>, <<65>>, <<88>>, <<50, 48, 50, 51>>, <<77>>, <<98>>),
    ListTrack(<<51>>, <<65>>, <<89>>, <<50, 48, 50, 52>>, <<76>>, <<97, ChSpace, 98>>) }

ListTrackLists ==
  {tracks \in SeqsUpTo(ListTrackPool, MaxListTracks) :
     \A i, j \in 1..Len(tracks) : tracks[i] = tracks[j] => i = j}

\* "", " ", "a", "B"
ListQueries == {<<>>, <<ChSpace>>, <<97>>, <<66>>}
ListAlbumFilters == {AllAlbums, <<88>>}
ListLyricistFilters == {AllLyricists, <<76>>}
\* part_001: the "all years" entry, "2024"; page.tsx: "", " ", "202"
ListYearFilters == {AllYears, <<50, 48, 50, 52>>}
ListYearParts == {<<>>, <<ChSpace>>, <<50, 48, 50>>}

Filters(query, albumFilter, lyricistFilter, yearFilter) ==
  [query |-> query, albumFilter |-> albumFilter, lyricistFilter |-> lyricistFilter,
   yearFilter |-> yearFilter]

NoFilters == Filters(<<>>, AllAlbums, AllLyricists, AllYears)

ListInit ==
  /\ listTracks \in ListTrackLists
  /\ listFilters = NoFilters
  /\ listShown = <<>>

ListIdle ==
  /\ listTracks = <<>>
  /\ listFilters = NoFilters
  /\ listShown = <<>>

\* return result.sort(...): the array in hand is sorted where it is.
SortInPlace(result) ==
  /\ listShown' = SortByTitle(result.items)
  /\ listTracks' = IF result.isTracks THEN listShown' ELSE listTracks

\* filteredTracks of src/unnamed/part_001
filteredTracks ==
  \E query \in ListQueries, albumFilter \in ListAlbumFilters,
     lyricistFilter \in ListLyricistFilters, yearFilter \in ListYearFilters :
    \E searched \in Searches(listTracks, query) :
      /\ listFilters' = Filters(query, albumFilter, lyricistFilter, yearFilter)
      /\ SortInPlace(ByYear(ByLyricist(ByAlbum(searched, albumFilter), lyricistFilter),
                            yearFilter))
      /\ UNCHANGED notList

\* filteredTracks of src/app/page.tsx
filteredTracksPage ==
  \E query \in ListQueries, albumFilter \in ListAlbumFilters,
     lyricistFilter \in ListLyricistFilters, yearFilter \in ListYearParts :
    \E searched \in Searches(listTracks, query) :
      /\ listFilters' = Filters(query, albumFilter, lyricistFilter, yearFilter)
      /\ SortInPlace(ByYearPart(ByLyricist(ByAlbum(searched, albumFilter), lyricistFilter),
                                yearFilter))
      /\ UNCHANGED notList

ListNext == filteredTracks \/ filteredTracksPage

\* C29: computing filteredTracks leaves the tracks array as it was, items
\* and order, whatever the query and the filters.
C29_TracksUntouched == [][listTracks' = listTracks]_vars

(***************************************************************************)
(* The layout effect of the WordCloud component.  A word list stands for   *)
(* its wordsKey and a size for its width and height; a layout is the pair  *)
(* of the word list and the size it was computed for, <<>> is the empty    *)
(* layoutWords.  A call of run() waits for the import of d3-cloud, then    *)
(* for the "end" event of the layout; cancelled is the variable of the     *)
(* effect that made the call, set by the effect's cleanup.                 *)
(***************************************************************************)
MaxCloudWords == 2
MaxCloudSizes == 2
MaxRenders == 3

RenderKey(words, size) == <<words, size>>

Run(words, size) == [words |-> words, size |-> size, stage |-> "import", cancelled |-> FALSE]

\* return () => { cancelled = true; }, of the effect run before this one
Cleanup(runs) == {[r EXCEPT !.cancelled = TRUE] : r \in runs}

\* The body of the layout effect for the word list and size of this render,
\* after the cleanup of the effect before it.
LayoutEffect(words, size) ==
  IF size = 0
  THEN /\ cloudRuns' = Cleanup(cloudRuns)
       /\ UNCHANGED <<lastRenderKey, layoutWords>>
  ELSE IF words = 0
  THEN /\ layoutWords' = <<>>
       /\ cloudRuns' = Cleanup(cloudRuns)
       /\ UNCHANGED lastRenderKey
  ELSE IF RenderKey(words, size) = lastRenderKey
  THEN /\ cloudRuns' = Cleanup(cloudRuns)
       /\ UNCHANGED <<lastRenderKey, layoutWords>>
  ELSE /\ lastRenderKey' = RenderKey(words, size)
       /\ cloudRuns' = Cleanup(cloudRuns) \cup {Run(words, size)}
       /\ UNCHANGED layoutWords

\* The component is mounted: the size is not measured and the effect has
\* returned at its first line.
CloudInit ==
  /\ cloudWords \in 0..MaxCloudWords
  /\ cloudSize = 0
  /\ lastRenderKey = <<>>
  /\ cloudRuns = {}
  /\ layoutWords = <<>>
  /\ renders = 0

CloudIdle ==
  /\ cloudWords = 0
  /\ cloudSize = 0
  /\ lastRenderKey = <<>>
  /\ cloudRuns = {}
  /\ layoutWords = <<>>
  /\ renders = 0

\* The parent passes another word list.
ChangeWords ==
  /\ renders \in 0..(MaxRenders - 1)
  /\ \E words \in (0..MaxCloudWords) \ {cloudWords} :
       /\ cloudWords' = words
       /\ LayoutEffect(words, cloudSize)
  /\ renders' = renders + 1
  /\ UNCHANGED <<cloudSize, notCloud>>

\* setSize(next), from the timer of the resize observer.
Resize ==
  /\ renders \in 0..(MaxRenders - 1)
  /\ \E size \in (1..MaxCloudSizes) \ {cloudSize} :
       /\ cloudSize' = size
       /\ LayoutEffect(cloudWords, size)
  /\ renders' = renders + 1
  /\ UNCHANGED <<cloudWords, notCloud>>

\* The parent renders again and passes a new array with the same words:
\* trimmedWords is a new array, so the effect is run again.
Rerender ==
  /\ renders \in 0..(MaxRenders - 1)
  /\ LayoutEffect(cloudWords, cloudSize)
  /\ renders' = renders + 1
  /\ UNCHANGED <<cloudWords, cloudSize, notCloud>>

\* await import("d3-cloud") returns; if (cancelled) return; layout.start()
ImportResolved ==
  \E r \in cloudRuns :
    /\ r.stage = "import"
    /\ cloudRuns' = IF r.cancelled THEN cloudRuns \ {r}
                    ELSE (cloudRuns \ {r}) \cup {[r EXCEPT !.stage = "layout"]}
    /\ UNCHANGED <<cloudWords, cloudSize, lastRenderKey, layoutWords, renders, notCloud>>

\* layout.on("end", ...): if (cancelled) return; setLayoutWords(centered)
LayoutEnd ==
  \E r \in cloudRuns :
    /\ r.stage = "layout"
    /\ cloudRuns' = cloudRuns \ {r}
    /\ layoutWords' = IF r.cancelled THEN layoutWords ELSE RenderKey(r.words, r.size)
    /\ UNCHANGED <<cloudWords, cloudSize, lastRenderKey, renders, notCloud>>

CloudNext == ChangeWords \/ Resize \/ Rerender \/ ImportResolved \/ LayoutEnd

\* C30: if from some time on the word list and the size are w and s for
\* good, then from some time on the layout shown is the one computed for w
\* and s; and whenever a layout is put on display it is the layout of the
\* word list and size of that time.
C30_LayoutShown ==
  /\ \A w \in 1..MaxCloudWords, s \in 1..MaxCloudSizes :
       <>[](cloudWords = w /\ cloudSize = s) => <>[](layoutWords = RenderKey(w, s))
  /\ [][(layoutWords' # layoutWords /\ layoutWords' # <<>>) =>
          layoutWords' = RenderKey(cloudWords', cloudSize')]_vars

(***************************************************************************)
(* Specifications, one for each component.                                 *)
(***************************************************************************)
InitNorm ==
  NormInit /\ ValIdle /\ StatIdle /\ ParseIdle /\ PageIdle
    /\ SnipIdle /\ ListIdle /\ CloudIdle
InitVal ==
  ValInit /\ NormIdle /\ StatIdle /\ ParseIdle /\ PageIdle
    /\ SnipIdle /\ ListIdle /\ CloudIdle
InitStat ==
  StatInit /\ NormIdle /\ ValIdle /\ ParseIdle /\ PageIdle
    /\ SnipIdle /\ ListIdle /\ CloudIdle
InitParse ==
  ParseInit /\ NormIdle /\ ValIdle /\ StatIdle /\ PageIdle
    /\ SnipIdle /\ ListIdle /\ CloudIdle
InitPage ==
  PageInit /\ NormIdle /\ ValIdle /\ StatIdle /\ ParseIdle
    /\ SnipIdle /\ ListIdle /\ CloudIdle
InitSnip ==
  SnipInit /\ NormIdle /\ ValIdle /\ StatIdle /\ ParseIdle
    /\ PageIdle /\ ListIdle /\ CloudIdle
InitList ==
  ListInit /\ NormIdle /\ ValIdle /\ StatIdle /\ ParseIdle
    /\ PageIdle /\ SnipIdle /\ CloudIdle
InitCloud ==
  CloudInit /\ NormIdle /\ ValIdle /\ StatIdle /\ ParseIdle
    /\ PageIdle /\ SnipIdle /\ ListIdle

SpecNorm == InitNorm /\ [][NormNext]_vars
SpecVal == InitVal /\ [][ValNext]_vars
SpecStat == InitStat /\ [][StatNext]_vars
SpecParse == InitParse /\ [][ParseNext]_vars
SpecPage == InitPage /\ [][PageNext]_vars
SpecSnip == InitSnip /\ [][SnipNext]_vars
SpecList == InitList /\ [][ListNext]_vars
\* The callbacks of a pending import and of a started layout are run by the
\* event loop: a call of run() does not wait forever.
SpecCloud ==
  InitCloud /\ [][CloudNext]_vars /\ WF_vars(ImportResolved) /\ WF_vars(LayoutEnd)
====
